---- MODULE Spec2Model ----
(***************************************************************************)
(* Model of the scoring and allocation engine of BombProofInvesting:       *)
(*   - StarterPortfolioService (server/services/starter-portfolio.ts)      *)
(*   - RankingEngine           (server/services/ranking-engine.ts)         *)
(*   - RiskScoringService      (server/services/market_data.ts)            *)
(*                                                                         *)
(* Numbers.  A JavaScript number is modelled as an exact rational <<n,d>>  *)
(* in lowest terms with d > 0, extended with the three IEEE specials       *)
(* +Infinity = <<1,0>>, -Infinity = <<-1,0>> and NaN = <<0,0>>.  Rounding  *)
(* error of binary floating point is not modelled; every tolerance that    *)
(* is checked (1%) is many orders of magnitude above it.                   *)
(***************************************************************************)
EXTENDS Integers, Sequences, FiniteSets, TLC

\* ------------------------------------------------------------------------
\* Bounds of the model
\* ------------------------------------------------------------------------
MaxCoins == 2

MaxAdvisory == 2

MaxMarkets == 3

\* ------------------------------------------------------------------------
\* Number arithmetic (IEEE-754 semantics on exact rationals)
\* ------------------------------------------------------------------------
AbsInt(i) == IF i < 0 THEN -i ELSE i

SignInt(i) == IF i < 0 THEN -1 ELSE IF i > 0 THEN 1 ELSE 0

\* Euclid's algorithm as a function, so that each step works on values
GcdOf[a \in Nat, b \in Nat] == IF b = 0 THEN a ELSE GcdOf[b, a % b]

Gcd(a, b) == GcdOf[a, b]

NormOf[n \in Int, d \in Int] ==
  IF d = 0 THEN <<SignInt(n), 0>>
  ELSE LET g == Gcd(AbsInt(n), AbsInt(d))
           s == IF d < 0 THEN -1 ELSE 1
       IN <<(s * n) \div g, (s * d) \div g>>

Norm(n, d) == NormOf[n, d]

R(n, d) == Norm(n, d)

NaN == <<0, 0>>

Infinity == <<1, 0>>

Zero == <<0, 1>>

One == <<1, 1>>

IsNaN(a) == a[1] = 0 /\ a[2] = 0

IsFinite(a) == a[2] > 0

\* The binary operations are functions of two numbers, so that an operand is
\* evaluated once however often the operation reads it.
Numbers == Int \X Int

AddOf[a \in Numbers, b \in Numbers] ==
  IF a[2] = 0 /\ b[2] = 0
  THEN (IF a[1] = b[1] THEN a ELSE NaN)
  ELSE Norm(a[1] * b[2] + b[1] * a[2], a[2] * b[2])

Add(a, b) == AddOf[a, b]

Neg(a) == <<-a[1], a[2]>>

Sub(a, b) == Add(a, Neg(b))

MulOf[a \in Numbers, b \in Numbers] == Norm(a[1] * b[1], a[2] * b[2])

Mul(a, b) == MulOf[a, b]

RecipOf[a \in Numbers] == IF a[1] < 0 THEN <<-a[2], -a[1]>> ELSE <<a[2], a[1]>>

Recip(a) == RecipOf[a]

Div(a, b) == Mul(a, Recip(b))

LtOf[a \in Numbers, b \in Numbers] ==
  IF IsNaN(a) \/ IsNaN(b) THEN FALSE
  ELSE IF a[2] = 0 /\ b[2] = 0 THEN a[1] < b[1]
  ELSE a[1] * b[2] < b[1] * a[2]

Lt(a, b) == LtOf[a, b]

Gt(a, b) == Lt(b, a)

Eq(a, b) == ~IsNaN(a) /\ ~IsNaN(b) /\ a = b

Le(a, b) == Lt(a, b) \/ Eq(a, b)

Ge(a, b) == Le(b, a)

MathMaxOf[a \in Numbers, b \in Numbers] ==
  IF IsNaN(a) \/ IsNaN(b) THEN NaN ELSE IF Lt(a, b) THEN b ELSE a

MathMax(a, b) == MathMaxOf[a, b]

MathMinOf[a \in Numbers, b \in Numbers] ==
  IF IsNaN(a) \/ IsNaN(b) THEN NaN ELSE IF Lt(b, a) THEN b ELSE a

MathMin(a, b) == MathMinOf[a, b]

MathAbs(a) == <<AbsInt(a[1]), a[2]>>

\* reduce((sum, item) => sum + item.allocationPct, 0)
SumPct(items) ==
  LET sumTo[i \in 0..Len(items)] ==
        IF i = 0 THEN Zero ELSE Add(sumTo[i - 1], items[i].allocationPct)
  IN sumTo[Len(items)]

\* ------------------------------------------------------------------------
\* StarterPortfolioService: presets and policy
\* ------------------------------------------------------------------------
Buckets == {"High", "Medium", "Low"}

riskProfiles ==
  [ Conservative |->
      [ coreTargetPct |-> R(75, 100), btcTargetPct |-> R(50, 100),
        ethTargetPct |-> R(25, 100), stableBufferPct |-> R(15, 100),
        satelliteTargetPct |-> R(10, 100),
        bucketCaps |-> [High |-> R(0, 100), Medium |-> R(60, 100), Low |-> R(1, 1)],
        perAssetCapPct |-> R(25, 100), liquidityRankLimit |-> 100 ],
    Balanced |->
      [ coreTargetPct |-> R(55, 100), btcTargetPct |-> R(35, 100),
        ethTargetPct |-> R(20, 100), stableBufferPct |-> R(5, 100),
        satelliteTargetPct |-> R(40, 100),
        bucketCaps |-> [High |-> R(15, 100), Medium |-> R(60, 100), Low |-> R(1, 1)],
        perAssetCapPct |-> R(15, 100), liquidityRankLimit |-> 200 ],
    Aggressive |->
      [ coreTargetPct |-> R(40, 100), btcTargetPct |-> R(24, 100),
        ethTargetPct |-> R(16, 100), stableBufferPct |-> R(5, 100),
        satelliteTargetPct |-> R(55, 100),
        bucketCaps |-> [High |-> R(30, 100), Medium |-> R(60, 100), Low |-> R(1, 1)],
        perAssetCapPct |-> R(12, 100), liquidityRankLimit |-> 300 ] ]

Presets == DOMAIN riskProfiles

\* The core floor of buildPolicy (Math.max(0.3, ...)).
CoreFloor == R(3, 10)

\* buildPolicy without the floor on the core target
buildPolicy_NoFloor(intake) ==
  LET baseProfile == riskProfiles[intake.riskTolerance]
      stableBufferPct == MathMax(R(intake.stablecoinBufferPct, 100), baseProfile.stableBufferPct)
      coreTargetPct == Sub(baseProfile.coreTargetPct, stableBufferPct)
  IN [ riskTolerance |-> intake.riskTolerance,
       coreTargetPct |-> coreTargetPct,
       btcTargetPct |-> Mul(baseProfile.btcTargetPct, Div(coreTargetPct, baseProfile.coreTargetPct)),
       ethTargetPct |-> Mul(baseProfile.ethTargetPct, Div(coreTargetPct, baseProfile.coreTargetPct)),
       stableBufferPct |-> stableBufferPct,
       satelliteTargetPct |-> Sub(Sub(One, coreTargetPct), stableBufferPct),
       bucketCaps |-> baseProfile.bucketCaps,
       perAssetCapPct |-> baseProfile.perAssetCapPct,
       holdingsTargetRange |-> intake.holdingsRange ]

buildPolicy(intake) ==
  LET baseProfile == riskProfiles[intake.riskTolerance]
      stableBufferPct == MathMax(R(intake.stablecoinBufferPct, 100), baseProfile.stableBufferPct)
      coreTargetPct == MathMax(CoreFloor, Sub(baseProfile.coreTargetPct, stableBufferPct))
      satelliteTargetPct == Sub(Sub(One, coreTargetPct), stableBufferPct)
  IN [ riskTolerance |-> intake.riskTolerance,
       coreTargetPct |-> coreTargetPct,
       btcTargetPct |-> Mul(baseProfile.btcTargetPct, Div(coreTargetPct, baseProfile.coreTargetPct)),
       ethTargetPct |-> Mul(baseProfile.ethTargetPct, Div(coreTargetPct, baseProfile.coreTargetPct)),
       stableBufferPct |-> stableBufferPct,
       satelliteTargetPct |-> satelliteTargetPct,
       bucketCaps |-> baseProfile.bucketCaps,
       perAssetCapPct |-> baseProfile.perAssetCapPct,
       holdingsTargetRange |-> intake.holdingsRange ]

\* ------------------------------------------------------------------------
\* Candidates (CoinScore records as far as the portfolio service reads them)
\* ------------------------------------------------------------------------
\* marketCap and volume24h in millions of USD, volatility30d in percent.
CoinUniverse ==
  { [coinId |-> "bitcoin",   marketCap |-> 900000, volume24h |-> 30000, volatility30d |-> 25],
    [coinId |-> "tether",    marketCap |-> 100000, volume24h |-> 50000, volatility30d |-> 1],
    [coinId |-> "solana",    marketCap |-> 80000,  volume24h |-> 4000,  volatility30d |-> 50],
    [coinId |-> "cardano",   marketCap |-> 20000,  volume24h |-> 800,   volatility30d |-> 80],
    [coinId |-> "polkadot",  marketCap |-> 9000,   volume24h |-> 300,   volatility30d |-> 70],
    [coinId |-> "chainlink", marketCap |-> 10000,  volume24h |-> 500,   volatility30d |-> 29],
    [coinId |-> "pepe",      marketCap |-> 900,    volume24h |-> 700,   volatility30d |-> 120],
    [coinId |-> "stellar",   marketCap |-> 3000,   volume24h |-> 10,    volatility30d |-> 40] }

RECURSIVE DistinctSeqs(_, _)
DistinctSeqs(S, n) ==
  IF n = 0 THEN {<<>>}
  ELSE LET shorter == DistinctSeqs(S, n - 1)
       IN shorter \cup
          { Append(q, x) : q \in {p \in shorter : Len(p) = n - 1},
                           x \in S } 

RankedLists ==
  { q \in DistinctSeqs(CoinUniverse, MaxCoins) :
      \A i, j \in 1..Len(q) : i # j => q[i] # q[j] }

volatilityBucket(coin) ==
  IF coin.volatility30d < 30 THEN "Low"
  ELSE IF coin.volatility30d < 70 THEN "Medium" ELSE "High"

coreCoins == {"bitcoin", "ethereum"}

stablecoins == {"usd-coin", "tether", "dai", "true-usd", "binance-usd"}

\* Array.prototype.filter: the elements passing Test, in their order
SelectSeq2(s, Test(_, _)) ==
  LET RECURSIVE F(_, _)
      F(lo, hi) ==
        IF lo > hi THEN <<>>
        ELSE IF lo = hi THEN (IF Test(s[lo], lo) THEN <<s[lo]>> ELSE <<>>)
        ELSE F(lo, (lo + hi) \div 2) \o F((lo + hi) \div 2 + 1, hi)
  IN F(1, Len(s))

indexOf(s, x) == IF \E i \in 1..Len(s) : s[i] = x
                 THEN (CHOOSE i \in 1..Len(s) : s[i] = x /\ \A j \in 1..(i - 1) : s[j] # x) - 1
                 ELSE -1

\* filterCandidates without the exclusion test
filterCandidates_NoExclusions(rankedCoins, intake, policy) ==
  LET riskProfile == riskProfiles[intake.riskTolerance]
      keep(coin, i) ==
        /\ ~(coin.marketCap < intake.liquidity.minMarketCapUsd)
        /\ ~Lt(Div(R(coin.volume24h, 1), R(coin.marketCap, 1)), R(intake.liquidity.minVolToMcap, 1000))
        /\ ~(indexOf(rankedCoins, coin) + 1 > riskProfile.liquidityRankLimit)
        /\ ~(policy.bucketCaps[volatilityBucket(coin)] = Zero)
        /\ ~(coin.coinId \in coreCoins \/ coin.coinId \in stablecoins)
  IN SelectSeq2(rankedCoins, keep)

filterCandidates(rankedCoins, intake, policy) ==
  LET riskProfile == riskProfiles[intake.riskTolerance]
      keep(coin, i) ==
        /\ ~(coin.marketCap < intake.liquidity.minMarketCapUsd)
        \* volume24h / marketCap < minVolToMcap, minVolToMcap given in 1/1000
        /\ ~Lt(Div(R(coin.volume24h, 1), R(coin.marketCap, 1)), R(intake.liquidity.minVolToMcap, 1000))
        /\ ~(indexOf(rankedCoins, coin) + 1 > riskProfile.liquidityRankLimit)
        /\ ~(coin.coinId \in intake.exclusions)
        /\ ~(policy.bucketCaps[volatilityBucket(coin)] = Zero)
        /\ ~(coin.coinId \in coreCoins \/ coin.coinId \in stablecoins)
  IN SelectSeq2(rankedCoins, keep)

Item(coinId, role, bucket, pct) ==
  [coinId |-> coinId, role |-> role, bucket |-> bucket, allocationPct |-> pct]

\* buildCoreAllocations without the stablecoin row
buildCoreAllocations_NoStable(policy) ==
  << Item("bitcoin", "core", "Low", policy.btcTargetPct),
     Item("ethereum", "core", "Medium", policy.ethTargetPct) >>

buildCoreAllocations(policy) ==
  LET btc == Item("bitcoin", "core", "Low", policy.btcTargetPct)
      eth == Item("ethereum", "core", "Medium", policy.ethTargetPct)
      usdc == Item("usd-coin", "stable", "Low", policy.stableBufferPct)
  IN IF Gt(policy.stableBufferPct, Zero) THEN <<btc, eth, usdc>> ELSE <<btc, eth>>

\* ------------------------------------------------------------------------
\* Satellite capping, fallback selection and composition
\* ------------------------------------------------------------------------
hmax(policy) == policy.holdingsTargetRange[2]

\* Array.prototype.slice(0, n), n possibly zero or negative
slice0(s, n) ==
  IF n >= 0 THEN SubSeq(s, 1, IF n < Len(s) THEN n ELSE Len(s))
  ELSE SubSeq(s, 1, IF Len(s) + n > 0 THEN Len(s) + n ELSE 0)

\* the per-asset loop without its assignment
capPerAsset_NoClamp(satellites, policy) == satellites

capPerAsset(satellites, policy) ==
  [ i \in 1..Len(satellites) |->
      IF Gt(satellites[i].allocationPct, policy.perAssetCapPct)
      THEN [satellites[i] EXCEPT !.allocationPct = policy.perAssetCapPct]
      ELSE satellites[i] ]

InBucket(satellites, bucket) == SelectSeq(satellites, LAMBDA s : s.bucket = bucket)

bucketTotal(satellites, bucket) == SumPct(InBucket(satellites, bucket))

\* the bucket loop without its scaling
capBuckets_NoScale(satellites, policy) == satellites

capBuckets(satellites, policy) ==
  [ i \in 1..Len(satellites) |->
      LET b == satellites[i].bucket
      IN IF b \in Buckets /\ Gt(bucketTotal(satellites, b), policy.bucketCaps[b])
         THEN [satellites[i] EXCEPT !.allocationPct =
                 Mul(@, Div(policy.bucketCaps[b], bucketTotal(satellites, b)))]
         ELSE satellites[i] ]

\* Array.prototype.sort((a, b) => b.allocationPct - a.allocationPct), stable
RECURSIVE sortDesc(_)
sortDesc(s) ==
  IF s = <<>> THEN <<>>
  ELSE LET rest == sortDesc(SubSeq(s, 1, Len(s) - 1))
           x == s[Len(s)]
           before == SelectSeq(rest, LAMBDA e : ~Gt(x.allocationPct, e.allocationPct))
           after == SelectSeq(rest, LAMBDA e : Gt(x.allocationPct, e.allocationPct))
       IN before \o <<x>> \o after

\* The argument array as validateAndCapSatellites leaves it (it is edited in place)
cappedInPlace(satellites, policy) ==
  sortDesc(capBuckets(capPerAsset(satellites, policy), policy))

\* validateAndCapSatellites returning the whole sorted array
validateAndCapSatellites_NoLimit(satellites, policy) == cappedInPlace(satellites, policy)

validateAndCapSatellites(satellites, policy) ==
  slice0(cappedInPlace(satellites, policy), hmax(policy) - 3)

fallbackSatelliteSelection(candidates, policy) ==
  LET maxSatellites == hmax(policy) - 3
      targetPerSat == Div(policy.satelliteTargetPct, R(maxSatellites, 1))
      allocation == MathMin(targetPerSat, policy.perAssetCapPct)
      pool == slice0(candidates, maxSatellites)
      RECURSIVE Loop(_)
      \* Loop(i) = <<satellites, bucketLimits>> after the first i candidates
      Loop(i) ==
        IF i = 0 THEN << <<>>, [b \in Buckets |-> Zero] >>
        ELSE LET prev == Loop(i - 1)
                 bucket == volatilityBucket(pool[i])
             IN IF Lt(prev[2][bucket], policy.bucketCaps[bucket])
                THEN << Append(prev[1], Item(pool[i].coinId, "satellite", bucket, allocation)),
                        [prev[2] EXCEPT ![bucket] = Add(@, allocation)] >>
                ELSE prev
  IN Loop(Len(pool))[1]

Tolerance == R(1, 100)

combineAndValidateAllocations(core, satellites) ==
  LET allocation == core \o satellites
      totalAllocation == SumPct(allocation)
  IN IF Gt(MathAbs(Sub(totalAllocation, One)), Tolerance)
     THEN [ i \in 1..Len(allocation) |->
              [allocation[i] EXCEPT !.allocationPct = Mul(@, Div(One, totalAllocation))] ]
     ELSE allocation

\* Math.round of any number, as a number
roundNumber(a) == IF IsFinite(a) THEN R((2 * a[1] + a[2]) \div (2 * a[2]), 1) ELSE a

\* dca.amountUsd of one item
dcaAmountUsd(allocationPct, totalContribution) ==
  LET dcaAmount == Mul(roundNumber(Div(Mul(allocationPct, R(totalContribution, 1)), R(5, 1))), R(5, 1))
  IN MathMax(dcaAmount, R(5, 1))

addDcaPlans(allocation, totalContribution) ==
  [ i \in 1..Len(allocation) |->
      [ amountUsd |-> dcaAmountUsd(allocation[i].allocationPct, totalContribution),
        cadence |-> "Monthly" ] ]

\* ------------------------------------------------------------------------
\* The advisory (AI) response
\* ------------------------------------------------------------------------
\* Entries an advisory response may carry: well-formed ones, and ones whose
\* bucket or allocation_pct is outside the documented type/range.
AdvisoryEntries ==
  { [coin_id |-> "solana",    bucket |-> "Medium",  allocation_pct |-> R(10, 100)],
    [coin_id |-> "cardano",   bucket |-> "High",    allocation_pct |-> R(90, 100)],
    [coin_id |-> "chainlink", bucket |-> "Low",     allocation_pct |-> R(15, 100)],
    [coin_id |-> "polkadot",  bucket |-> "High",    allocation_pct |-> R(12, 100)],
    [coin_id |-> "dogecoin",  bucket |-> "Extreme", allocation_pct |-> R(5, 1)],
    [coin_id |-> "solana",    bucket |-> "Medium",  allocation_pct |-> R(-75, 100)] }

ValidEntry(e) ==
  /\ e.bucket \in Buckets
  /\ Ge(e.allocation_pct, Zero)
  /\ Le(e.allocation_pct, One)

RECURSIVE SeqsUpTo(_, _)
SeqsUpTo(S, n) ==
  IF n = 0 THEN {<<>>}
  ELSE LET shorter == SeqsUpTo(S, n - 1)
       IN shorter \cup
          { Append(q, x) : q \in {p \in shorter : Len(p) = n - 1}, x \in S }

\* kind: "chatError"  aiService.chat rejected (timeout, HTTP error, no key)
\*       "notJson"    JSON.parse(response) throws
\*       "jsonNull"   JSON.parse gives null: reading .satellites throws
\*       "noList"     an object without a satellites array
\*       "list"       an object with a satellites array
AdvisoryResponses ==
  { [kind |-> k, satellites |-> <<>>] : k \in {"chatError", "notJson", "jsonNull", "noList"} }
  \cup { [kind |-> "list", satellites |-> q] : q \in SeqsUpTo(AdvisoryEntries, MaxAdvisory) }

parseSatellites(response) ==
  [ i \in 1..Len(response.satellites) |->
      Item(response.satellites[i].coin_id, "satellite",
           response.satellites[i].bucket, response.satellites[i].allocation_pct) ]

\* a try block whose catch is never entered
advisoryThrows_Never(response) == FALSE

advisoryThrows(response) == response.kind \in {"chatError", "notJson", "jsonNull"}

selectSatellitesWithAI(candidates, policy, response) ==
  IF advisoryThrows(response)
  THEN fallbackSatelliteSelection(candidates, policy)
  ELSE validateAndCapSatellites(parseSatellites(response), policy)

\* ------------------------------------------------------------------------
\* RankingEngine: component scores and total score
\* ------------------------------------------------------------------------
weights ==
  [ technical |-> 30, momentum |-> 25, volume |-> 15, volatility |-> 15, fundamental |-> 15 ]

\* Math.max(0, Math.min(100, score)) on an integer score
clamp(score) == IF score > 100 THEN 100 ELSE IF score < 0 THEN 0 ELSE score

\* the local variable score of scoreTechnical before its return
technicalPoints(technical, currentPrice) ==
  LET bbPosition == Div(Sub(currentPrice, technical.lower), Sub(technical.upper, technical.lower))
  IN 50
     + (IF Lt(technical.rsi, R(30, 1)) THEN 15
        ELSE IF Gt(technical.rsi, R(70, 1)) THEN -15 ELSE 5)
     + (IF Gt(technical.histogram, Zero) THEN 10 ELSE -10)
     + (IF Gt(currentPrice, technical.sma20) THEN 10 ELSE 0)
     + (IF Gt(currentPrice, technical.sma50) THEN 10 ELSE 0)
     + (IF Lt(bbPosition, R(2, 10)) THEN 10
        ELSE IF Gt(bbPosition, R(8, 10)) THEN -10 ELSE 0)
     + (IF Gt(technical.volumeRatio, R(15, 10)) THEN 10
        ELSE IF Lt(technical.volumeRatio, R(5, 10)) THEN -10 ELSE 0)

\* scoreTechnical returning its score without the final clamp
scoreTechnicalUnclamped(technical, currentPrice) == technicalPoints(technical, currentPrice)

scoreTechnical(technical, currentPrice) == clamp(technicalPoints(technical, currentPrice))

scoreMomentum(momentum) ==
  clamp(50
    + (IF Gt(momentum.momentum, R(10, 1)) THEN 20
       ELSE IF Gt(momentum.momentum, Zero) THEN 10
       ELSE IF Lt(momentum.momentum, R(-10, 1)) THEN -20 ELSE -10)
    + (IF Gt(momentum.trendStrength, R(5, 1)) THEN 15
       ELSE IF Lt(momentum.trendStrength, R(-5, 1)) THEN -15 ELSE 0)
    + (IF Gt(momentum.volumeMomentum, R(20, 1)) THEN 15
       ELSE IF Lt(momentum.volumeMomentum, R(-20, 1)) THEN -15 ELSE 0))

\* q[lo] + ... + q[hi].  The additions are exact, so their order does not
\* change the sum; they are grouped in halves to keep the evaluation shallow.
RECURSIVE SumRange(_, _, _)
SumRange(q, lo, hi) ==
  IF lo > hi THEN Zero
  ELSE IF lo = hi THEN q[lo]
  ELSE LET mid == (lo + hi) \div 2
       IN Add(SumRange(q, lo, mid), SumRange(q, mid + 1, hi))

\* reduce((s, v) => s + v, 0)
SumSeq(q) == SumRange(q, 1, Len(q))

\* Array.prototype.slice(from, to) with from < 0 and to <= 0 counted from
\* the end (to = 0 standing for an omitted end)
sliceFromEnd(q, from, to) ==
  LET lo == IF Len(q) + from < 0 THEN 0 ELSE Len(q) + from
      hi == IF Len(q) + to < 0 THEN 0 ELSE Len(q) + to
  IN SubSeq(q, lo + 1, hi)

scoreVolume(market, volumes) ==
  LET volumeToMcap == Div(market.volume24h, market.marketCap)
      recentAvg == Div(SumSeq(sliceFromEnd(volumes, -7, 0)), R(7, 1))
      olderAvg == Div(SumSeq(sliceFromEnd(volumes, -30, -7)), R(23, 1))
  IN clamp(50
       + (IF Gt(volumeToMcap, R(1, 10)) THEN 20
          ELSE IF Gt(volumeToMcap, R(5, 100)) THEN 10
          ELSE IF Lt(volumeToMcap, R(1, 100)) THEN -20 ELSE 0)
       + (IF Gt(recentAvg, Mul(olderAvg, R(15, 10))) THEN 20
          ELSE IF Gt(recentAvg, olderAvg) THEN 10
          ELSE IF Lt(recentAvg, Mul(olderAvg, R(5, 10))) THEN -20 ELSE 0))

scoreVolatility(risk) ==
  clamp(50
    + (IF Lt(risk.volatility30d, R(30, 1)) THEN 20
       ELSE IF Lt(risk.volatility30d, R(50, 1)) THEN 10
       ELSE IF Gt(risk.volatility30d, R(100, 1)) THEN -20
       ELSE IF Gt(risk.volatility30d, R(70, 1)) THEN -10 ELSE 0)
    + (IF Gt(risk.sharpeRatio, R(2, 1)) THEN 20
       ELSE IF Gt(risk.sharpeRatio, One) THEN 10
       ELSE IF Lt(risk.sharpeRatio, Zero) THEN -20 ELSE 0)
    + (IF Lt(risk.maxDrawdown, R(20, 1)) THEN 10
       ELSE IF Gt(risk.maxDrawdown, R(50, 1)) THEN -20 ELSE 0))

\* marketCap in millions of USD
scoreFundamentals(market) ==
  LET supplyRatio ==
        Div(market.circulatingSupply,
            IF market.totalSupply # Zero /\ ~IsNaN(market.totalSupply)
            THEN market.totalSupply ELSE market.circulatingSupply)
      distanceFromAth ==
        Mul(Div(Sub(market.ath, market.priceChange24h), market.ath), R(100, 1))
  IN clamp(50
       + (IF Gt(market.marketCap, R(1000, 1)) /\ Lt(market.marketCap, R(100000, 1)) THEN 20
          ELSE IF Gt(market.marketCap, R(100, 1)) THEN 10
          ELSE IF Lt(market.marketCap, R(10, 1)) THEN -20 ELSE 0)
       + (IF Gt(supplyRatio, R(7, 10)) THEN 10
          ELSE IF Lt(supplyRatio, R(3, 10)) THEN -10 ELSE 0)
       + (IF Gt(market.priceChange30d, R(10, 1)) THEN 10
          ELSE IF Lt(market.priceChange30d, R(-20, 1)) THEN -10 ELSE 0)
       + (IF Gt(distanceFromAth, R(70, 1)) THEN 10
          ELSE IF Lt(distanceFromAth, R(10, 1)) THEN -10 ELSE 0))

\* the weighted total of analyzeCoin
totalScoreOf(sc) ==
  R( sc.technicalScore * weights.technical + sc.momentumScore * weights.momentum
     + sc.volumeScore * weights.volume + sc.volatilityScore * weights.volatility
     + sc.fundamentalScore * weights.fundamental, 100 )

\* ------------------------------------------------------------------------
\* RankingEngine: indicators and signals
\* ------------------------------------------------------------------------
\* prices[prices.length - 1]; undefined on an empty array, NaN in arithmetic
lastOf(prices) == IF prices = <<>> THEN NaN ELSE prices[Len(prices)]

\* calculateRSI returning the neutral 50 only on an empty series
calculateRSI_NoShortGuard(prices, period) ==
  IF Len(prices) < 1 THEN R(50, 1) ELSE R(100, 1)

calculateRSI(prices, period) ==
  IF Len(prices) < period + 1 THEN R(50, 1)
  ELSE LET n == Len(prices)
           change(j) == Sub(prices[j], prices[j - 1])
           RECURSIVE gainsUpTo(_), lossesUpTo(_)
           \* gains and losses after the loop has handled 1-based index j
           gainsUpTo(j) ==
             IF j = n - period THEN Zero
             ELSE IF Gt(change(j), Zero) THEN Add(gainsUpTo(j - 1), change(j))
                  ELSE gainsUpTo(j - 1)
           lossesUpTo(j) ==
             IF j = n - period THEN Zero
             ELSE IF Gt(change(j), Zero) THEN lossesUpTo(j - 1)
                  ELSE Sub(lossesUpTo(j - 1), change(j))
           avgGain == Div(gainsUpTo(n), R(period, 1))
           avgLoss == Div(lossesUpTo(n), R(period, 1))
       IN IF avgLoss = Zero THEN R(100, 1)
          ELSE Sub(R(100, 1), Div(R(100, 1), Add(One, Div(avgGain, avgLoss))))

calculateSMA(prices, period) ==
  IF Len(prices) < period THEN lastOf(prices)
  ELSE Div(SumSeq(sliceFromEnd(prices, 0 - period, 0)), R(period, 1))

calculatePriceMomentum(prices, period) ==
  IF Len(prices) < period + 1 THEN Zero
  ELSE LET current == prices[Len(prices)]
           past == prices[Len(prices) - period]
       IN Mul(Div(Sub(current, past), past), R(100, 1))

calculateVolumeMomentum(volumes) ==
  IF Len(volumes) < 10 THEN Zero
  ELSE LET avgRecent == Div(SumSeq(sliceFromEnd(volumes, -5, 0)), R(5, 1))
           avgOlder == Div(SumSeq(sliceFromEnd(volumes, -10, -5)), R(5, 1))
       IN IF Gt(avgOlder, Zero)
          THEN Mul(Div(Sub(avgRecent, avgOlder), avgOlder), R(100, 1))
          ELSE Zero

\* technical: rsi, histogram, sma50; momentum: momentum, volumeMomentum
generateSignals(technical, momentum, prices) ==
  LET currentPrice == lastOf(prices)
      rsiLow == Lt(technical.rsi, R(30, 1))
      rsiHigh == ~rsiLow /\ Gt(technical.rsi, R(70, 1))
      macdUp == Gt(technical.histogram, Zero)
      above50 == Gt(currentPrice, technical.sma50)
      strong == Gt(momentum.momentum, R(10, 1))
      weak == ~strong /\ Lt(momentum.momentum, R(-10, 1))
      volumeUp == Gt(momentum.volumeMomentum, R(20, 1))
      bullishCount == (IF rsiLow THEN 1 ELSE 0) + (IF macdUp THEN 1 ELSE 0)
                      + (IF above50 THEN 1 ELSE 0) + (IF strong THEN 1 ELSE 0)
                      + (IF volumeUp THEN 1 ELSE 0)
      bearishCount == (IF rsiHigh THEN 1 ELSE 0) + (IF macdUp THEN 0 ELSE 1)
                      + (IF above50 THEN 0 ELSE 1) + (IF weak THEN 1 ELSE 0)
  IN [ trend |-> IF bullishCount > bearishCount + 1 THEN "bullish"
                 ELSE IF bearishCount > bullishCount + 1 THEN "bearish"
                 ELSE "neutral",
       bullishCount |-> bullishCount,
       bearishCount |-> bearishCount ]

\* ------------------------------------------------------------------------
\* RiskScoringService (market_data.ts, second half)
\* ------------------------------------------------------------------------
\* Amounts of money are in millions of USD.
RISK_WEIGHTS ==
  [ volatility |-> R(25, 100), marketCap |-> R(20, 100), liquidity |-> R(15, 100),
    age |-> R(10, 100), development |-> R(10, 100), centralization |-> R(8, 100),
    regulatory |-> R(7, 100), technical |-> R(5, 100) ]

REWARD_WEIGHTS ==
  [ growth |-> R(20, 100), adoption |-> R(18, 100), innovation |-> R(15, 100),
    utility |-> R(12, 100), partnerships |-> R(10, 100), community |-> R(10, 100),
    tokenomics |-> R(15, 100) ]

MARKET_CAP_TIERS ==
  [ MEGA_CAP |-> 100000, LARGE_CAP |-> 10000, MID_CAP |-> 1000, SMALL_CAP |-> 100, MICRO_CAP |-> 10 ]

\* the volatility score used when no history is available
DefaultVolatility == 50

\* history: [points |-> length of prices, stdDev1000 |-> 1000 x the standard
\* deviation of the daily returns]
calculateVolatilityScore(history) ==
  IF history.points < 2 THEN R(DefaultVolatility, 1)
  ELSE MathMin(R(100, 1), MathMax(Zero, history.stdDev1000))

calculateMarketCapRisk(marketCap) ==
  IF marketCap <= 0 THEN 90
  ELSE IF marketCap >= MARKET_CAP_TIERS.MEGA_CAP THEN 5
  ELSE IF marketCap >= MARKET_CAP_TIERS.LARGE_CAP THEN 15
  ELSE IF marketCap >= MARKET_CAP_TIERS.MID_CAP THEN 30
  ELSE IF marketCap >= MARKET_CAP_TIERS.SMALL_CAP THEN 50
  ELSE IF marketCap >= MARKET_CAP_TIERS.MICRO_CAP THEN 70
  ELSE 90

calculateLiquidityRisk(volume, marketCap) ==
  IF volume <= 0 THEN 95
  ELSE IF marketCap <= 0 THEN 90
  ELSE LET volumeRatio == R(volume, marketCap)
       IN IF Ge(volumeRatio, R(1, 10)) THEN 10
          ELSE IF Ge(volumeRatio, R(5, 100)) THEN 20
          ELSE IF Ge(volumeRatio, R(2, 100)) THEN 35
          ELSE IF Ge(volumeRatio, R(1, 100)) THEN 50
          ELSE IF Ge(volumeRatio, R(5, 1000)) THEN 70
          ELSE 90

calculateAgeRisk(coinId) ==
  IF coinId \in {"bitcoin", "ethereum", "litecoin", "ripple", "bitcoin-cash"} THEN 10
  ELSE IF coinId \in {"solana", "cardano", "polkadot", "chainlink", "uniswap"} THEN 40
  ELSE 60

calculateDevelopmentRisk(coinId) ==
  IF coinId \in {"ethereum", "bitcoin", "cardano", "solana", "polkadot"} THEN 20 ELSE 60

calculateCentralizationRisk(coinId) ==
  IF coinId \in {"bitcoin", "ethereum", "litecoin"} THEN 15
  ELSE IF coinId \in {"cardano", "solana", "polkadot"} THEN 40
  ELSE 70

calculateRegulatoryRisk(coinId) ==
  IF coinId \in {"bitcoin", "ethereum"} THEN 20
  ELSE IF coinId \in {"monero", "zcash"} THEN 80
  ELSE 50

calculateTechnicalRisk(coinId) ==
  IF coinId \in {"ethereum", "cardano", "solana", "polkadot"} THEN 20 ELSE 50

calculateRiskFactors(data, volatilityScore) ==
  [ volatility |-> volatilityScore,
    marketCap |-> R(calculateMarketCapRisk(data.market_cap), 1),
    liquidity |-> R(calculateLiquidityRisk(data.total_volume, data.market_cap), 1),
    age |-> R(calculateAgeRisk(data.id), 1),
    development |-> R(calculateDevelopmentRisk(data.id), 1),
    centralization |-> R(calculateCentralizationRisk(data.id), 1),
    regulatory |-> R(calculateRegulatoryRisk(data.id), 1),
    technical |-> R(calculateTechnicalRisk(data.id), 1) ]

calculateGrowthPotential(data) ==
  LET momentumScore == R(data.change24h + data.change7d + data.change30d, 3)
      capAdjustment ==
        IF data.market_cap > MARKET_CAP_TIERS.LARGE_CAP THEN 30
        ELSE IF data.market_cap > MARKET_CAP_TIERS.MID_CAP THEN 50
        ELSE IF data.market_cap > MARKET_CAP_TIERS.SMALL_CAP THEN 70
        ELSE 85
  IN MathMin(R(100, 1), MathMax(Zero, Add(R(capAdjustment, 1), Mul(momentumScore, R(2, 1)))))

calculateAdoptionScore(data) ==
  LET rankScore == IF data.market_cap_rank # 0
                   THEN (IF 100 - data.market_cap_rank > 0 THEN 100 - data.market_cap_rank ELSE 0)
                   ELSE 20
      volumeScore == IF data.total_volume < 50 THEN data.total_volume ELSE 50
  IN IF rankScore + volumeScore < 100 THEN rankScore + volumeScore ELSE 100

calculateInnovationScore(coinId) ==
  IF coinId \in {"ethereum", "cardano", "solana", "polkadot", "chainlink"} THEN 80
  ELSE IF coinId \in {"litecoin", "bitcoin-cash", "stellar"} THEN 50
  ELSE 30

calculatePartnershipScore(coinId) ==
  IF coinId \in {"ethereum", "cardano", "chainlink", "ripple"} THEN 70 ELSE 40

\* description: the set of utility keywords the text contains ({} also for
\* a missing description); hasDescription tells the two apart
calculateUtilityScore(data) ==
  LET d == data.description
      utilityScore ==
        30 + (IF "smart contract" \in d THEN 20 ELSE 0)
           + (IF "defi" \in d THEN 15 ELSE 0)
           + (IF "payment" \in d THEN 10 ELSE 0)
           + (IF "oracle" \in d THEN 15 ELSE 0)
           + (IF "governance" \in d THEN 10 ELSE 0)
  IN IF utilityScore < 100 THEN utilityScore ELSE 100

calculateCommunityScore(coinId) ==
  IF coinId \in {"bitcoin", "ethereum", "cardano", "solana"} THEN 80 ELSE 45

\* max_supply and circulating_supply in millions of coins; 0 stands for a
\* missing (undefined or null) value, which is falsy as 0 is
calculateTokenomicsScore(data) ==
  LET base == 50
      ratioAdj ==
        IF data.max_supply # 0 /\ data.circulating_supply # 0
        THEN (IF Gt(R(data.circulating_supply, data.max_supply), R(8, 10)) THEN 10 ELSE 0)
             - (IF Lt(R(data.circulating_supply, data.max_supply), R(3, 10)) THEN 10 ELSE 0)
        ELSE 0
      capAdj == IF data.max_supply # 0 /\ data.max_supply > 0 THEN 15 ELSE -10
      score == base + ratioAdj + capAdj
  IN IF score > 100 THEN 100 ELSE IF score < 0 THEN 0 ELSE score

calculateRewardFactors(data) ==
  [ growth |-> calculateGrowthPotential(data),
    adoption |-> R(calculateAdoptionScore(data), 1),
    innovation |-> R(calculateInnovationScore(data.id), 1),
    partnerships |-> R(calculatePartnershipScore(data.id), 1),
    utility |-> R(calculateUtilityScore(data), 1),
    community |-> R(calculateCommunityScore(data.id), 1),
    tokenomics |-> R(calculateTokenomicsScore(data), 1) ]

RECURSIVE SumOver(_, _, _)
SumOver(keys, factors, factorWeights) ==
  IF keys = {} THEN Zero
  ELSE LET k == CHOOSE x \in keys : TRUE
       IN Add(Mul(factors[k], factorWeights[k]), SumOver(keys \ {k}, factors, factorWeights))

calculateWeightedScore(factors, factorWeights) == SumOver(DOMAIN factors, factors, factorWeights)

determineCategory(riskScore, rewardScore, data) ==
  IF Ge(riskScore, R(80, 1)) \/ (Ge(riskScore, R(60, 1)) /\ Le(rewardScore, R(20, 1)))
  THEN "quarantine"
  ELSE IF Le(riskScore, R(30, 1)) /\ data.market_cap > MARKET_CAP_TIERS.LARGE_CAP
  THEN "core"
  ELSE IF Ge(rewardScore, R(70, 1)) /\ Ge(riskScore, R(50, 1))
  THEN "high-risk"
  ELSE "medium"

calculateConfidence(data, risk) ==
  LET confidence ==
        100 - (IF data.market_cap = 0 THEN 20 ELSE 0)
            - (IF data.total_volume = 0 THEN 15 ELSE 0)
            - (IF ~data.hasDescription THEN 10 ELSE 0)
            - (IF data.market_cap_rank = 0 THEN 10 ELSE 0)
            - (IF risk.volatility = R(DefaultVolatility, 1) THEN 15 ELSE 0)
  IN IF confidence > 0 THEN confidence ELSE 0

\* Math.round of a finite number
MathRound(a) == (2 * a[1] + a[2]) \div (2 * a[2])

\* the value calculateScore returns from its try block
scoreResult(data, volatilityScore) ==
  LET riskFactors == calculateRiskFactors(data, volatilityScore)
      rewardFactors == calculateRewardFactors(data)
      riskScore == calculateWeightedScore(riskFactors, RISK_WEIGHTS)
      rewardScore == calculateWeightedScore(rewardFactors, REWARD_WEIGHTS)
  IN [ outcome |-> "returned",
       riskScore |-> MathRound(riskScore),
       rewardScore |-> MathRound(rewardScore),
       category |-> determineCategory(riskScore, rewardScore, data),
       confidence |-> calculateConfidence(data, riskFactors),
       explanation |-> "templated" ]

\* the catch block of calculateScore, rethrowing instead of returning
scoreOnErrorRethrow ==
  [ outcome |-> "threw", riskScore |-> 95, rewardScore |-> 5,
    category |-> "quarantine", confidence |-> 0, explanation |-> "generic" ]

\* the catch block of calculateScore
scoreOnError ==
  [ outcome |-> "returned", riskScore |-> 95, rewardScore |-> 5,
    category |-> "quarantine", confidence |-> 0, explanation |-> "generic" ]

\* ------------------------------------------------------------------------
\* AIEvaluator: evaluateWithAI and the ai_evaluations rows
\* ------------------------------------------------------------------------
\* pick.allocation clamped: Math.min(Math.max(pick.allocation, 0), 100)
clampAllocation(a) == MathMin(MathMax(a, Zero), R(100, 1))

\* the allocations of the picks after the normalization block
normalizePicks(allocations) ==
  LET totalAllocation == SumSeq(allocations)
  IN IF Gt(totalAllocation, Zero) /\ totalAllocation # R(100, 1)
     THEN [ i \in 1..Len(allocations) |->
              roundNumber(Mul(Div(allocations[i], totalAllocation), R(100, 1))) ]
     ELSE allocations

\* allocations[index] || 1 over the selected coins of fallbackEvaluation
fallbackAllocations == <<30, 25, 15, 10, 8, 5, 4, 3>>

fallbackEvaluation(features) ==
  LET lowRisk == slice0(SelectSeq(features, LAMBDA f : f = "low"), 2)
      mediumRisk == slice0(SelectSeq(features, LAMBDA f : f = "medium"), 3)
      highRisk == slice0(SelectSeq(features, LAMBDA f : f = "high"), 3)
      selected == slice0(lowRisk \o mediumRisk \o highRisk, 8)
  IN [ i \in 1..Len(selected) |-> R(fallbackAllocations[i], 1) ]

\* the picks (their allocation) evaluateWithAI resolves with
evaluateWithAI(features, response) ==
  IF response.kind \in {"chatError", "notJson"}
  THEN fallbackEvaluation(features)
  ELSE normalizePicks([ i \in 1..Len(slice0(response.allocations, 10)) |->
                          clampAllocation(response.allocations[i]) ])

\* db.update(...).set(updates).where(eq(id, id)) on the rows
updateAiEvaluation(rows, id, updates) ==
  [ i \in 1..Len(rows) |->
      IF rows[i].id = id
      THEN [ k \in DOMAIN rows[i] |->
               IF k \in DOMAIN updates THEN updates[k] ELSE rows[i][k] ]
      ELSE rows[i] ]

\* ------------------------------------------------------------------------
\* State
\* ------------------------------------------------------------------------
VARIABLES
  pc,            \* position in generateStarterPortfolio
  intake,        \* the request's IntakeData (fields the service reads)
  rankedCoins,   \* what rankingEngine.rankCoins resolves to
  policy,        \* buildPolicy(intake)
  candidates,    \* filterCandidates(...)
  core,          \* buildCoreAllocations(...)
  advisory,      \* outcome of the aiService.chat call
  satellites,    \* the list selectSatellitesWithAI resolves to
  allocation,    \* the allocation of the response
  monthlyContributionUsd, \* intake.monthlyContributionUsd, read by addDcaPlans
  dca,           \* per row of the allocation: dca.amountUsd and dca.cadence
  chatCalls,     \* calls of aiService.chat issued in this run
  satelliteList, \* a satellite array shared by successive compositions
  outputs,       \* the allocations those compositions returned
  rpc,           \* position in rankCoins
  markets,       \* the rows marketDataService.markets resolved to
  tasks,         \* per row: what its callback in Promise.all has settled to
  ranked,        \* the array rankCoins resolves to
  spc,           \* position in calculateScore
  sdata,         \* the CoinDetail calculateScore works on
  raised,        \* an error was raised inside the try block of calculateScore
  sresult,       \* how calculateScore settled
  volatilityFrom, \* where calculateRiskFactors took the volatility score from
  apc,           \* position in analyzeCoin
  scores,        \* the component scores and the total score computed so far
  gpc,           \* position in the indicator and signal part of analyzeCoin
  prices,        \* the price series under analysis
  volumes,       \* its volume series
  technical,     \* the indicators generateSignals and scoreTechnical read
  signal,        \* what generateSignals returned
  epc,           \* position in runEvaluation
  evaluationId,  \* the id runEvaluation draws with crypto.randomUUID()
  records,       \* rows of the ai_evaluations table
  eresponse,     \* what the evaluator's chat call settled with
  picks,         \* picks of the EvaluationResult
  healthStatus,  \* MarketDataService.healthStatus
  cacheValid,    \* the cache holds an unexpired entry for the call's key
  calls,         \* the executeWithFallback calls
  failedSince,   \* providers that failed a call and were not marked healthy since
  hpc,           \* position in fetchWithRetry
  maxRetries,    \* config.maxRetries (config.HTTP_MAX_RETRIES)
  attempts,      \* how each fetch attempt so far was answered
  lastError,     \* the local lastError
  thrown,        \* what fetchWithRetry threw
  rateLimitInfo, \* AIService.rateLimitInfo, lastReset kept as the time since it
  chatpc,        \* each chat call's position
  timer,         \* each waiting chat call's remaining setTimeout delay
  sentInWindow   \* chat requests sent since the window was last reset

pvars == <<pc, intake, rankedCoins, policy, candidates, core, advisory, satellites, allocation,
          monthlyContributionUsd, dca, chatCalls>>

cvars == <<satelliteList, outputs>>

rvars == <<rpc, markets, tasks, ranked>>

svars == <<spc, sdata, raised, sresult, volatilityFrom>>

avars == <<apc, scores>>

gvars == <<gpc, prices, volumes, technical, signal>>

evars == <<epc, evaluationId, records, eresponse, picks>>

mvars == <<healthStatus, cacheValid, calls, failedSince>>

hvars == <<hpc, maxRetries, attempts, lastError, thrown>>

lvars == <<rateLimitInfo, chatpc, timer, sentInWindow>>

xvars == <<evars, mvars, hvars, lvars>>

vars == <<pvars, cvars, rvars, svars, avars, gvars, xvars>>

None == "none"

PIdle ==
  /\ pc = "idle"
  /\ intake = None
  /\ rankedCoins = <<>>
  /\ policy = None
  /\ candidates = <<>>
  /\ core = <<>>
  /\ advisory = None
  /\ satellites = <<>>
  /\ allocation = <<>>
  /\ monthlyContributionUsd = 0
  /\ dca = <<>>
  /\ chatCalls = 0

CIdle ==
  /\ satelliteList = <<>>
  /\ outputs = <<>>

RIdle ==
  /\ rpc = "idle"
  /\ markets = <<>>
  /\ tasks = <<>>
  /\ ranked = <<>>

NoDetail ==
  [ usable |-> FALSE, id |-> "", market_cap |-> 0, total_volume |-> 0, market_cap_rank |-> 0,
    hasDescription |-> FALSE, description |-> {}, change24h |-> 0, change7d |-> 0,
    change30d |-> 0, max_supply |-> 0, circulating_supply |-> 0 ]

NoResult ==
  [ outcome |-> "pending", riskScore |-> 0, rewardScore |-> 0,
    category |-> "", confidence |-> 0, explanation |-> "" ]

SIdle ==
  /\ spc = "idle"
  /\ sdata = NoDetail
  /\ raised = FALSE
  /\ sresult = NoResult
  /\ volatilityFrom = "none"

NoScores ==
  [ technicalScore |-> 0, momentumScore |-> 0, volumeScore |-> 0,
    volatilityScore |-> 0, fundamentalScore |-> 0, totalScore |-> Zero ]

AIdle ==
  /\ apc = "idle"
  /\ scores = NoScores

NoTechnical ==
  [ rsi |-> Zero, histogram |-> Zero, sma20 |-> Zero, sma50 |-> Zero,
    momentum |-> Zero, volumeMomentum |-> Zero ]

NoSignal == [ trend |-> "", bullishCount |-> 0, bearishCount |-> 0 ]

GIdle ==
  /\ gpc = "idle"
  /\ prices = <<>>
  /\ volumes = <<>>
  /\ technical = NoTechnical
  /\ signal = NoSignal

EIdle ==
  /\ epc = "idle"
  /\ evaluationId = ""
  /\ records = <<>>
  /\ eresponse = None
  /\ picks = <<>>

MIdle ==
  /\ healthStatus = <<>>
  /\ cacheValid = FALSE
  /\ calls = <<>>
  /\ failedSince = {}

\* the value of a variable that was never assigned
Undefined == [attempt |-> 0, kind |-> "undefined"]

HIdle ==
  /\ hpc = "idle"
  /\ maxRetries = 0
  /\ attempts = <<>>
  /\ lastError = Undefined
  /\ thrown = Undefined

LIdle ==
  /\ rateLimitInfo = [requestsThisMinute |-> 0, sinceReset |-> 0]
  /\ chatpc = <<>>
  /\ timer = <<>>
  /\ sentInWindow = 0

XIdle == EIdle /\ MIdle /\ HIdle /\ LIdle

\* Inputs of the request.  The route hands req.body.intake to the service
\* unvalidated, so the override and the range are not limited to the
\* sliders of the client (0..20 and 6..20).
StableOverrides == {5, 20, 80}

HoldingsMaxes == {3, 4, 7}

\* intake.monthlyContributionUsd
MonthlyBudgets == {12, 50}

Intakes ==
  [ riskTolerance : Presets,
    stablecoinBufferPct : StableOverrides,
    holdingsRange : { <<3, h>> : h \in HoldingsMaxes },
    liquidity : { [minMarketCapUsd |-> 1000, minVolToMcap |-> 5] },
    exclusions : { {} } ]

PInit ==
  /\ pc = "start"
  /\ intake \in Intakes
  /\ rankedCoins \in RankedLists
  /\ policy = None
  /\ candidates = <<>>
  /\ core = <<>>
  /\ advisory = None
  /\ satellites = <<>>
  /\ allocation = <<>>
  /\ monthlyContributionUsd = 0
  /\ dca = <<>>
  /\ chatCalls = 0
  /\ CIdle
  /\ RIdle
  /\ SIdle
  /\ AIdle
  /\ GIdle
  /\ XIdle

\* step 1: buildPolicy, then the call of rankCoins is awaited
BuildPolicy ==
  /\ pc = "start"
  /\ policy' = buildPolicy(intake)
  /\ pc' = "ranking"
  /\ UNCHANGED <<intake, rankedCoins, candidates, core, advisory, satellites, allocation, monthlyContributionUsd, dca, chatCalls>>
  /\ UNCHANGED <<cvars, rvars, svars, avars, gvars, xvars>>

\* rankCoins rejects: generateStarterPortfolio rethrows
RankingFails ==
  /\ pc = "ranking"
  /\ pc' = "failed"
  /\ UNCHANGED <<intake, rankedCoins, policy, candidates, core, advisory, satellites, allocation, monthlyContributionUsd, dca, chatCalls>>
  /\ UNCHANGED <<cvars, rvars, svars, avars, gvars, xvars>>

\* steps 3 and 4: filterCandidates, buildCoreAllocations; the chat call is issued
FilterAndBuildCore ==
  /\ pc = "ranking"
  /\ candidates' = filterCandidates(rankedCoins, intake, policy)
  /\ core' = buildCoreAllocations(policy)
  /\ chatCalls' = chatCalls + 1
  /\ pc' = "advisory"
  /\ UNCHANGED <<intake, rankedCoins, policy, advisory, satellites, allocation, monthlyContributionUsd, dca>>
  /\ UNCHANGED <<cvars, rvars, svars, avars, gvars, xvars>>

\* step 5: the chat call settles and selectSatellitesWithAI resolves
SelectSatellites ==
  /\ pc = "advisory"
  /\ \E response \in AdvisoryResponses :
       /\ advisory' = response
       /\ satellites' = selectSatellitesWithAI(candidates, policy, response)
  /\ pc' = "selected"
  /\ UNCHANGED <<intake, rankedCoins, policy, candidates, core, allocation, monthlyContributionUsd, dca, chatCalls>>
  /\ UNCHANGED <<cvars, rvars, svars, avars, gvars, xvars>>

\* steps 6 and 7: combineAndValidateAllocations, addDcaPlans
Combine ==
  /\ pc = "selected"
  /\ \E budget \in MonthlyBudgets :
       /\ monthlyContributionUsd' = budget
       /\ dca' = addDcaPlans(combineAndValidateAllocations(core, satellites), budget)
  /\ allocation' = combineAndValidateAllocations(core, satellites)
  /\ pc' = "combined"
  /\ UNCHANGED <<intake, rankedCoins, policy, candidates, core, advisory, satellites, chatCalls>>
  /\ UNCHANGED <<cvars, rvars, svars, avars, gvars, xvars>>

PNext == BuildPolicy \/ RankingFails \/ FilterAndBuildCore \/ SelectSatellites \/ Combine

Spec == PInit /\ [][PNext]_vars

\* The same run under the scheduling its calls guarantee.  The chat call
\* settles: the fetch carries AbortSignal.timeout(30000) and the rate-limit
\* wait is one setTimeout of at most 60 s (ai.ts:138-168); what follows the
\* settlement is synchronous code.
RunIntakes == { i \in Intakes : i.stablecoinBufferPct = 5 /\ i.holdingsRange[2] = 7 }

\* rankings of at most one coin: what the call does is independent of them
RunRankings == { q \in RankedLists : Len(q) <= 1 }

AdvInit ==
  /\ PInit
  /\ intake \in RunIntakes
  /\ rankedCoins \in RunRankings

SpecAdvisory ==
  AdvInit /\ [][PNext]_vars /\ WF_vars(SelectSatellites) /\ WF_vars(Combine)

\* ------------------------------------------------------------------------
\* validateAndCapSatellites, statement by statement.  The argument array is
\* edited in place: satellites is that array.
\* ------------------------------------------------------------------------
\* holdingsRange is taken from the request body as it is
ValidateHoldingsMaxes == {2, 3, 4, 7}

ValidateIntakes ==
  [ riskTolerance : Presets,
    stablecoinBufferPct : {5},
    holdingsRange : { <<1, h>> : h \in ValidateHoldingsMaxes },
    liquidity : { [minMarketCapUsd |-> 1000, minVolToMcap |-> 5] },
    exclusions : { {} } ]

VInit ==
  /\ pc = "proposed"
  /\ intake \in ValidateIntakes
  /\ policy = buildPolicy(intake)
  /\ advisory \in { r \in AdvisoryResponses : r.kind = "list" }
  /\ satellites = parseSatellites(advisory)
  /\ rankedCoins = <<>>
  /\ candidates = <<>>
  /\ core = <<>>
  /\ allocation = <<>>
  /\ monthlyContributionUsd = 0
  /\ dca = <<>>
  /\ chatCalls = 0
  /\ CIdle
  /\ RIdle
  /\ SIdle
  /\ AIdle
  /\ GIdle
  /\ XIdle

\* the first forEach: per-asset caps
ApplyPerAssetCaps ==
  /\ pc = "proposed"
  /\ satellites' = capPerAsset(satellites, policy)
  /\ pc' = "clamped"
  /\ UNCHANGED <<intake, rankedCoins, policy, candidates, core, advisory, allocation, monthlyContributionUsd, dca, chatCalls>>
  /\ UNCHANGED <<cvars, rvars, svars, avars, gvars, xvars>>

\* bucketTotals and the scaling of the buckets over their cap
ApplyBucketCaps ==
  /\ pc = "clamped"
  /\ satellites' = capBuckets(satellites, policy)
  /\ pc' = "bucketCapped"
  /\ UNCHANGED <<intake, rankedCoins, policy, candidates, core, advisory, allocation, monthlyContributionUsd, dca, chatCalls>>
  /\ UNCHANGED <<cvars, rvars, svars, avars, gvars, xvars>>

\* sort and slice: satellites becomes the returned array
SortAndLimit ==
  /\ pc = "bucketCapped"
  /\ satellites' = slice0(sortDesc(satellites), hmax(policy) - 3)
  /\ pc' = "validated"
  /\ UNCHANGED <<intake, rankedCoins, policy, candidates, core, advisory, allocation, monthlyContributionUsd, dca, chatCalls>>
  /\ UNCHANGED <<cvars, rvars, svars, avars, gvars, xvars>>

VNext == ApplyPerAssetCaps \/ ApplyBucketCaps \/ SortAndLimit

SpecValidate == VInit /\ [][VNext]_vars

\* ------------------------------------------------------------------------
\* Composing repeatedly from one satellite array
\* ------------------------------------------------------------------------
\* validateAndCapSatellites and combineAndValidateAllocations edit the
\* AllocationItem objects they are handed (sort and "*=" in place), so the
\* array a caller holds changes under a composition.  satelliteList is that
\* array; each Compose builds fresh core rows from the policy, as
\* generateStarterPortfolio does.
WellFormedItems ==
  { Item(e.coin_id, "satellite", e.bucket, e.allocation_pct) :
      e \in { x \in AdvisoryEntries : ValidEntry(x) } }

\* the array as one composition leaves it
listAfterCompose(list, pol) ==
  LET capped == cappedInPlace(list, pol)
      kept == Len(validateAndCapSatellites(list, pol))
      coreRows == buildCoreAllocations(pol)
      out == combineAndValidateAllocations(coreRows, validateAndCapSatellites(list, pol))
  IN [ i \in 1..Len(capped) |->
         IF i <= kept THEN out[Len(coreRows) + i] ELSE capped[i] ]

CInit ==
  /\ pc = "compose"
  /\ intake \in Intakes
  /\ policy = buildPolicy(intake)
  /\ satelliteList \in SeqsUpTo(WellFormedItems, MaxAdvisory)
  /\ outputs = <<>>
  /\ rankedCoins = <<>>
  /\ candidates = <<>>
  /\ core = <<>>
  /\ advisory = None
  /\ satellites = <<>>
  /\ allocation = <<>>
  /\ monthlyContributionUsd = 0
  /\ dca = <<>>
  /\ chatCalls = 0
  /\ RIdle
  /\ SIdle
  /\ AIdle
  /\ GIdle
  /\ XIdle

Compose ==
  /\ pc = "compose"
  /\ Len(outputs) < 2
  /\ outputs' = Append(outputs,
       combineAndValidateAllocations(buildCoreAllocations(policy),
                                     validateAndCapSatellites(satelliteList, policy)))
  /\ satelliteList' = listAfterCompose(satelliteList, policy)
  /\ UNCHANGED <<pvars, rvars, svars, avars, gvars, xvars>>

CNext == Compose

SpecCompose == CInit /\ [][CNext]_vars

\* ------------------------------------------------------------------------
\* RankingEngine.rankCoins
\* ------------------------------------------------------------------------
MarketIds == <<"solana", "cardano", "chainlink", "polkadot", "stellar">>

\* least number of price points a history needs
MinHistory == 30

\* lengths of history.prices a provider may answer with
HistoryLengths == {0, 29, 30, 90}

\* totalScore values analyzeCoin may yield for a candidate
TotalScores == {40, 55, 70}

NullResult == [kind |-> "null", coinId |-> "", totalScore |-> 0]

\* How the history call of a candidate settles: rejected, or resolved with
\* history.prices of some length.
Fetches ==
  { [ok |-> FALSE, points |-> 0] } \cup { [ok |-> TRUE, points |-> n] : n \in HistoryLengths }

\* What analyzeCoin does for a candidate: it is not reached, it raises on
\* malformed data, or it returns a CoinScore with some totalScore.
Analyses ==
  { [state |-> "notRun", totalScore |-> 0], [state |-> "threw", totalScore |-> 0] }
  \cup { [state |-> "returned", totalScore |-> t] : t \in TotalScores }

\* What one callback of markets.map(async coin => ...) settles to.
\* Result kinds: "null", "score" (a CoinScore), and "reject" (the callback's
\* promise rejecting, which rejects Promise.all).  The try/catch of the
\* callback turns every failure into null.
candidateOutcomeAborting(id, fetch, analysis) ==
  IF ~fetch.ok THEN [NullResult EXCEPT !.kind = "reject"]
  ELSE IF fetch.points < MinHistory THEN NullResult
  ELSE IF analysis.state = "threw" THEN [NullResult EXCEPT !.kind = "reject"]
  ELSE [kind |-> "score", coinId |-> id, totalScore |-> analysis.totalScore]

candidateOutcome(id, fetch, analysis) ==
  IF ~fetch.ok THEN NullResult
  ELSE IF fetch.points < MinHistory THEN NullResult
  ELSE IF analysis.state = "threw" THEN NullResult
  ELSE [kind |-> "score", coinId |-> id, totalScore |-> analysis.totalScore]

\* Array.prototype.sort((a, b) => b.totalScore - a.totalScore), stable
RECURSIVE sortByTotalScore(_)
sortByTotalScore(s) ==
  IF s = <<>> THEN <<>>
  ELSE LET rest == sortByTotalScore(SubSeq(s, 1, Len(s) - 1))
           x == s[Len(s)]
       IN SelectSeq(rest, LAMBDA e : e.totalScore >= x.totalScore)
          \o <<x>> \o SelectSeq(rest, LAMBDA e : e.totalScore < x.totalScore)

Settled(t) == t.state = "settled"

RInit ==
  /\ rpc = "markets"
  /\ markets = <<>>
  /\ tasks = <<>>
  /\ ranked = <<>>
  /\ PIdle
  /\ CIdle
  /\ SIdle
  /\ AIdle
  /\ GIdle
  /\ XIdle

\* marketDataService.markets rejects: rankCoins logs and rethrows
MarketsRejects ==
  /\ rpc = "markets"
  /\ rpc' = "threw"
  /\ UNCHANGED <<markets, tasks, ranked>>
  /\ UNCHANGED <<pvars, cvars, svars, avars, gvars, xvars>>

\* marketDataService.markets resolves; every row's callback starts and
\* awaits its history
MarketsResolves ==
  /\ rpc = "markets"
  /\ \E n \in 0..MaxMarkets :
       /\ markets' = SubSeq(MarketIds, 1, n)
       /\ tasks' = [i \in 1..n |-> [state |-> "pending", fetch |-> [ok |-> FALSE, points |-> 0],
                                  analysis |-> [state |-> "notRun", totalScore |-> 0], result |-> NullResult]]
  /\ rpc' = "fetching"
  /\ UNCHANGED ranked
  /\ UNCHANGED <<pvars, cvars, svars, avars, gvars, xvars>>

\* the history call of row i settles (in any order among the rows) and the
\* rest of its callback runs
HistorySettles(i) ==
  /\ rpc = "fetching"
  /\ tasks[i].state = "pending"
  /\ \E fetch \in Fetches, analysis \in Analyses :
       \* analyzeCoin runs only on a history of at least MinHistory points
       /\ analysis.state = "notRun" <=> (~fetch.ok \/ fetch.points < MinHistory)
       /\ LET res == candidateOutcome(markets[i], fetch, analysis)
              task == [state |-> "settled", fetch |-> fetch, analysis |-> analysis, result |-> res]
          IN /\ rpc' = IF res.kind = "reject" THEN "threw" ELSE rpc
             /\ tasks' = [tasks EXCEPT ![i] = task]
  /\ UNCHANGED <<markets, ranked>>
  /\ UNCHANGED <<pvars, cvars, svars, avars, gvars, xvars>>

\* Promise.all resolves: nulls are filtered out, the rest is sorted
RankingResolves ==
  /\ rpc = "fetching"
  /\ \A i \in 1..Len(tasks) : Settled(tasks[i])
  /\ ranked' = sortByTotalScore(
       [ j \in 1..Len(SelectSeq(tasks, LAMBDA t : t.result.kind = "score")) |->
           SelectSeq(tasks, LAMBDA t : t.result.kind = "score")[j].result ])
  /\ rpc' = "done"
  /\ UNCHANGED <<markets, tasks>>
  /\ UNCHANGED <<pvars, cvars, svars, avars, gvars, xvars>>

RNext ==
  \/ MarketsRejects
  \/ MarketsResolves
  \/ \E i \in 1..MaxMarkets : i <= Len(tasks) /\ HistorySettles(i)
  \/ RankingResolves

SpecRank == RInit /\ [][RNext]_vars

\* ------------------------------------------------------------------------
\* RiskScoringService.calculateScore
\* ------------------------------------------------------------------------
\* What marketDataService.coin may resolve to.  A detail that is not usable
\* stands for a value without the fields of a CoinDetail (null from a
\* provider): reading data.id in calculateRiskFactors raises a TypeError.
CoinDetails ==
  { [ usable |-> TRUE, id |-> i, market_cap |-> mc, total_volume |-> v, market_cap_rank |-> r,
      hasDescription |-> d[1], description |-> d[2],
      change24h |-> ch[1], change7d |-> ch[2], change30d |-> ch[3],
      max_supply |-> sup[1], circulating_supply |-> sup[2] ] :
      i \in {"bitcoin", "solana", "monero", "newcoin"},
      mc \in {0, 50, 10000, 200000},
      v \in {0, 40, 3000},
      r \in {0, 1, 150},
      d \in { <<FALSE, {}>>, <<TRUE, {"payment"}>>, <<TRUE, {"smart contract", "defi", "governance"}>> },
      ch \in { <<0, 0, 0>>, <<-10, -20, -30>>, <<10, 20, 60>> },
      sup \in { <<0, 0>>, <<21, 19>>, <<1000, 200>> } }
  \cup { NoDetail }

\* What marketDataService.history may resolve to
Histories ==
  { [points |-> n, stdDev1000 |-> sd] :
      n \in {0, 30}, sd \in {Zero, R(37, 1), R(50, 1), R(2500, 10), R(900, 1)} }

SInit ==
  /\ spc = "coin"
  /\ sdata = NoDetail
  /\ raised = FALSE
  /\ sresult = NoResult
  /\ volatilityFrom = "none"
  /\ PIdle
  /\ CIdle
  /\ RIdle
  /\ AIdle
  /\ GIdle
  /\ XIdle

\* marketDataService.coin rejects: the catch block returns the default
CoinRejects ==
  /\ spc = "coin"
  /\ raised' = TRUE
  /\ sresult' = scoreOnError
  /\ spc' = "returned"
  /\ UNCHANGED <<sdata, volatilityFrom>>
  /\ UNCHANGED <<pvars, cvars, rvars, avars, gvars, xvars>>

\* marketDataService.coin resolves; calculateRiskFactors starts and awaits
\* the history.  On an unusable detail reading data.id raises.
CoinResolves ==
  /\ spc = "coin"
  /\ \E data \in CoinDetails :
       /\ sdata' = data
       /\ IF data.usable
          THEN /\ spc' = "history"
               /\ UNCHANGED <<raised, sresult>>
          ELSE /\ raised' = TRUE
               /\ sresult' = scoreOnError
               /\ spc' = "returned"
  /\ UNCHANGED volatilityFrom
  /\ UNCHANGED <<pvars, cvars, rvars, avars, gvars, xvars>>

\* marketDataService.history rejects: the inner catch keeps the default
\* volatility, the rest of the try block runs
HistoryRejects ==
  /\ spc = "history"
  /\ sresult' = scoreResult(sdata, R(DefaultVolatility, 1))
  /\ volatilityFrom' = "default"
  /\ spc' = "returned"
  /\ UNCHANGED <<sdata, raised>>
  /\ UNCHANGED <<pvars, cvars, rvars, avars, gvars, xvars>>

HistoryResolves ==
  /\ spc = "history"
  /\ \E history \in Histories :
       /\ sresult' = scoreResult(sdata, calculateVolatilityScore(history))
       /\ volatilityFrom' = IF history.points < 2 THEN "default" ELSE "history"
  /\ spc' = "returned"
  /\ UNCHANGED <<sdata, raised>>
  /\ UNCHANGED <<pvars, cvars, rvars, avars, gvars, xvars>>

SNext == CoinRejects \/ CoinResolves \/ HistoryRejects \/ HistoryResolves

SpecScore == SInit /\ [][SNext]_vars

\* ------------------------------------------------------------------------
\* RankingEngine.analyzeCoin: the scoring part
\* ------------------------------------------------------------------------
\* Indicator and market values the scoring functions may be handed: values
\* on both sides of every threshold, extreme magnitudes, and the NaN and
\* infinities that the divisions of the indicator functions produce.
Huge == R(1000000000, 1)

TechnicalInputs ==
  [ rsi : {Zero, R(29, 1), R(50, 1), R(71, 1), R(100, 1), NaN},
    histogram : {Neg(Huge), Zero, One, NaN},
    sma20 : {R(90, 1), R(110, 1)},
    sma50 : {R(90, 1), R(110, 1)},
    lower : {R(80, 1), R(100, 1), R(120, 1)},
    upper : {R(120, 1), R(200, 1), R(101, 1)},
    volumeRatio : {Zero, One, R(2, 1), Infinity} ]

CurrentPrices == {R(100, 1)}

MomentumInputs ==
  [ momentum : {Neg(Huge), R(-5, 1), Zero, R(5, 1), Huge, NaN},
    trendStrength : {R(-6, 1), Zero, R(6, 1), NaN},
    volumeMomentum : {R(-21, 1), Zero, R(21, 1), Infinity} ]

VolumeMarkets ==
  { [volume24h |-> R(v[1], 1), marketCap |-> R(v[2], 1)] :
      v \in { <<0, 0>>, <<200, 1000>>, <<60, 1000>>, <<20, 1000>>, <<5, 1000>>, <<1, 0>> } }

\* a volume series of n points: level a, then level b for the last 7
MakeVolumes(n, a, b) == [ i \in 1..n |-> IF i <= n - 7 THEN R(a, 1) ELSE R(b, 1) ]

VolumeSeries ==
  { <<>> } \cup
  { MakeVolumes(v[1], v[2], v[3]) :
      v \in { <<30, 10, 20>>, <<30, 10, 12>>, <<30, 10, 10>>, <<30, 10, 4>>, <<90, 0, 1000000>>, <<10, 10, 4>> } }

RiskInputs ==
  [ volatility30d : {Zero, R(40, 1), R(60, 1), R(80, 1), Huge, NaN},
    sharpeRatio : {Neg(Huge), R(1, 2), R(3, 2), Huge, NaN},
    maxDrawdown : {Zero, R(30, 1), R(60, 1), R(100, 1)} ]

FundamentalMarkets ==
  { [ marketCap |-> mc, circulatingSupply |-> R(sup[1], 1), totalSupply |-> R(sup[2], 1),
      priceChange30d |-> R(ch, 1), ath |-> R(a[1], 1), priceChange24h |-> R(a[2], 1) ] :
      mc \in {R(-1, 1), Zero, R(50, 1), R(500, 1), R(5000, 1), Huge},
      sup \in { <<0, 0>>, <<80, 100>>, <<50, 100>>, <<20, 100>>, <<50, 0>> },
      ch \in {-30, 0, 20},
      a \in { <<0, 0>>, <<100, 5>>, <<100, 95>>, <<100, 50>>, <<0, 5>> } }

\* the values each scoring function takes on those inputs
TechnicalScores == { scoreTechnical(t, p) : t \in TechnicalInputs, p \in CurrentPrices }

MomentumScores == { scoreMomentum(m) : m \in MomentumInputs }

VolumeScores == { scoreVolume(m, v) : m \in VolumeMarkets, v \in VolumeSeries }

VolatilityScores == { scoreVolatility(r) : r \in RiskInputs }

FundamentalScores == { scoreFundamentals(m) : m \in FundamentalMarkets }

AInit ==
  /\ apc = "technical"
  /\ scores = NoScores
  /\ PIdle
  /\ CIdle
  /\ RIdle
  /\ SIdle
  /\ GIdle
  /\ XIdle

ScoreTechnical ==
  /\ apc = "technical"
  /\ \E v \in TechnicalScores : scores' = [scores EXCEPT !.technicalScore = v]
  /\ apc' = "momentum"
  /\ UNCHANGED <<pvars, cvars, rvars, svars, gvars, xvars>>

ScoreMomentum ==
  /\ apc = "momentum"
  /\ \E v \in MomentumScores : scores' = [scores EXCEPT !.momentumScore = v]
  /\ apc' = "volume"
  /\ UNCHANGED <<pvars, cvars, rvars, svars, gvars, xvars>>

ScoreVolume ==
  /\ apc = "volume"
  /\ \E v \in VolumeScores : scores' = [scores EXCEPT !.volumeScore = v]
  /\ apc' = "volatility"
  /\ UNCHANGED <<pvars, cvars, rvars, svars, gvars, xvars>>

ScoreVolatility ==
  /\ apc = "volatility"
  /\ \E v \in VolatilityScores : scores' = [scores EXCEPT !.volatilityScore = v]
  /\ apc' = "fundamental"
  /\ UNCHANGED <<pvars, cvars, rvars, svars, gvars, xvars>>

\* scoreFundamentals, then the weighted total
ScoreFundamentalsAndTotal ==
  /\ apc = "fundamental"
  /\ \E v \in FundamentalScores :
       scores' = [scores EXCEPT !.fundamentalScore = v,
                                !.totalScore = totalScoreOf([scores EXCEPT !.fundamentalScore = v])]
  /\ apc' = "done"
  /\ UNCHANGED <<pvars, cvars, rvars, svars, gvars, xvars>>

ANext ==
  ScoreTechnical \/ ScoreMomentum \/ ScoreVolume \/ ScoreVolatility \/ ScoreFundamentalsAndTotal

SpecAnalyze == AInit /\ [][ANext]_vars

\* ------------------------------------------------------------------------
\* RankingEngine.analyzeCoin: indicators and signals of one price series
\* ------------------------------------------------------------------------
SeriesLengths == {0, 14, 15, 31, 40, 60}

SeriesSteps == {1, 50}

SeriesShapes == {"rising", "falling", "flat", "zigzag", "lateRise", "dipAtEnd"}

\* the i-th price (1-based) of a series of n points
PriceAt(shape, step, n, i) ==
  CASE shape = "rising"   -> 100 + step * i
    [] shape = "falling"  -> 4000 - step * i
    [] shape = "flat"     -> 100
    [] shape = "zigzag"   -> 100 + step * (i % 2) + (i \div 7)
    [] shape = "lateRise" -> IF i <= n - 5 THEN 100 ELSE 100 + step * (i - (n - 5))
    [] shape = "dipAtEnd" -> IF i < n THEN 100 + step * i ELSE 100 + step * i - step - 1

MakePrices(shape, step, n) == [ i \in 1..n |-> R(PriceAt(shape, step, n, i), 1) ]

PriceSeries ==
  { MakePrices(shape, step, n) : shape \in SeriesShapes, step \in SeriesSteps, n \in SeriesLengths }

\* constant volume, or volume doubling over the last five points
VolumeShapes == {"constant", "surge"}

MakeVolumeSeries(shape, n) ==
  [ i \in 1..n |-> IF shape = "surge" /\ i > n - 5 THEN R(2000, 1) ELSE R(1000, 1) ]

StrictlyIncreasing(q) == \A i \in 1..(Len(q) - 1) : Lt(q[i], q[i + 1])

ConstantSeries(q) == \A i \in 1..Len(q) : q[i] = q[1]

\* The MACD histogram is 0.1 * (ema12 - ema26).  The two moving averages
\* are not computed (their exact values have denominators 13^28 and 27^14);
\* the histogram is left free in sign.
HistogramValues == {Neg(One), Zero, One}

GInit ==
  /\ gpc = "indicators"
  /\ prices \in PriceSeries
  /\ \E shape \in VolumeShapes : volumes = MakeVolumeSeries(shape, Len(prices))
  /\ technical = NoTechnical
  /\ signal = NoSignal
  /\ PIdle
  /\ CIdle
  /\ RIdle
  /\ SIdle
  /\ AIdle
  /\ XIdle

\* calculateTechnicalIndicators and calculateMomentum
CalculateIndicators ==
  /\ gpc = "indicators"
  /\ \E h \in HistogramValues :
       technical' = [ rsi |-> calculateRSI(prices, 14),
                      histogram |-> h,
                      sma20 |-> calculateSMA(prices, 20),
                      sma50 |-> calculateSMA(prices, 50),
                      momentum |-> calculatePriceMomentum(prices, 10),
                      volumeMomentum |-> calculateVolumeMomentum(volumes) ]
  /\ gpc' = "signals"
  /\ UNCHANGED <<prices, volumes, signal>>
  /\ UNCHANGED <<pvars, cvars, rvars, svars, avars, xvars>>

GenerateSignals ==
  /\ gpc = "signals"
  /\ signal' = generateSignals(technical, technical, prices)
  /\ gpc' = "done"
  /\ UNCHANGED <<prices, volumes, technical>>
  /\ UNCHANGED <<pvars, cvars, rvars, svars, avars, xvars>>

GNext == CalculateIndicators \/ GenerateSignals

SpecSignals == GInit /\ [][GNext]_vars

\* ------------------------------------------------------------------------
\* StarterPortfolioService.filterCandidates on its own
\* ------------------------------------------------------------------------
FilterIntakes ==
  [ riskTolerance : Presets,
    stablecoinBufferPct : {5},
    holdingsRange : { <<8, 12>> },
    liquidity : { [minMarketCapUsd |-> m, minVolToMcap |-> v] : m \in {1000, 10000}, v \in {5, 50} },
    exclusions : { {}, {"solana"}, {"chainlink", "bitcoin"} } ]

\* a ranking of 101 coins: 99 small-cap coins, then solana at rank 100 and
\* chainlink at rank 101
LongRanking ==
  [ i \in 1..101 |->
      IF i = 100 THEN [coinId |-> "solana", marketCap |-> 80000, volume24h |-> 4000, volatility30d |-> 50]
      ELSE IF i = 101 THEN [coinId |-> "chainlink", marketCap |-> 10000, volume24h |-> 500, volatility30d |-> 29]
      ELSE [coinId |-> ToString(i), marketCap |-> 100 + i, volume24h |-> 50, volatility30d |-> 50] ]

FilterRankings == RankedLists \cup {LongRanking}

FInit ==
  /\ pc = "filter"
  /\ intake \in FilterIntakes
  /\ policy = buildPolicy(intake)
  /\ rankedCoins \in FilterRankings
  /\ candidates = <<>>
  /\ core = <<>>
  /\ advisory = None
  /\ satellites = <<>>
  /\ allocation = <<>>
  /\ monthlyContributionUsd = 0
  /\ dca = <<>>
  /\ chatCalls = 0
  /\ CIdle
  /\ RIdle
  /\ SIdle
  /\ AIdle
  /\ GIdle
  /\ XIdle

FilterCandidates ==
  /\ pc = "filter"
  /\ candidates' = filterCandidates(rankedCoins, intake, policy)
  /\ pc' = "filtered"
  /\ UNCHANGED <<intake, rankedCoins, policy, core, advisory, satellites, allocation, monthlyContributionUsd, dca, chatCalls>>
  /\ UNCHANGED <<cvars, rvars, svars, avars, gvars, xvars>>

FNext == FilterCandidates

SpecFilter == FInit /\ [][FNext]_vars

\* ------------------------------------------------------------------------
\* AIEvaluator.runEvaluation
\* ------------------------------------------------------------------------
MaxPicks == 3

\* values of pick.allocation in the parsed answer; NaN stands for a pick
\* without a numeric allocation
PickAllocations == { R(-5, 1), Zero, R(1, 1), R(2, 1), R(50, 1), R(150, 1), NaN }

EvaluatorResponses ==
  { [kind |-> k, allocations |-> <<>>] : k \in {"chatError", "notJson"} }
  \cup { [kind |-> "picks", allocations |-> q] : q \in SeqsUpTo(PickAllocations, MaxPicks) }

\* riskLevel of the prepared features, in score order
FeatureLists == { <<>>, <<"low", "medium">>, <<"high", "low", "medium", "medium">> }

\* ids: the one crypto.randomUUID() returns and the one the table's default
\* gen_random_uuid() gives
Uuids == {"id-a", "id-b"}

\* rows of other runs already in the table
StoredRows ==
  { <<>>,
    << [ id |-> "id-old", status |-> "completed", picks |-> <<R(100, 1)>>,
         summary |-> "text", error |-> "null" ] >> }

EInit ==
  /\ epc = "start"
  /\ evaluationId \in Uuids
  /\ records \in StoredRows
  /\ eresponse = None
  /\ picks = <<>>
  /\ PIdle
  /\ CIdle
  /\ RIdle
  /\ SIdle
  /\ AIdle
  /\ GIdle
  /\ MIdle
  /\ HIdle
  /\ LIdle

\* storage.createAiEvaluation resolves: the row gets the table's default id
CreateResolves ==
  /\ epc = "start"
  /\ \E rowId \in Uuids :
       records' = Append(records, [ id |-> rowId, status |-> "processing", picks |-> <<>>,
                                    summary |-> "null", error |-> "null" ])
  /\ epc' = "created"
  /\ UNCHANGED <<evaluationId, eresponse, picks>>
  /\ UNCHANGED <<pvars, cvars, rvars, svars, avars, gvars, mvars, hvars, lvars>>

\* storage.createAiEvaluation rejects: the catch block updates and rethrows
CreateRejects ==
  /\ epc = "start"
  /\ records' = updateAiEvaluation(records, evaluationId,
                                    [status |-> "failed", error |-> "message"])
  /\ epc' = "threw"
  /\ UNCHANGED <<evaluationId, eresponse, picks>>
  /\ UNCHANGED <<pvars, cvars, rvars, svars, avars, gvars, mvars, hvars, lvars>>

\* fetchMarketData, prepareFeatures or getUserContext throws: the catch
\* block updates and rethrows
PreparationFails ==
  /\ epc = "created"
  /\ records' = updateAiEvaluation(records, evaluationId,
                                    [status |-> "failed", error |-> "message"])
  /\ epc' = "threw"
  /\ UNCHANGED <<evaluationId, eresponse, picks>>
  /\ UNCHANGED <<pvars, cvars, rvars, svars, avars, gvars, mvars, hvars, lvars>>

\* evaluateWithAI resolves and the row is updated with the result
EvaluationCompletes ==
  /\ epc = "created"
  /\ \E features \in FeatureLists, response \in EvaluatorResponses :
       /\ eresponse' = response
       /\ picks' = evaluateWithAI(features, response)
       /\ records' = updateAiEvaluation(records, evaluationId,
                        [ status |-> "completed",
                          picks |-> evaluateWithAI(features, response),
                          summary |-> "text" ])
  /\ epc' = "done"
  /\ UNCHANGED evaluationId
  /\ UNCHANGED <<pvars, cvars, rvars, svars, avars, gvars, mvars, hvars, lvars>>

ENext == CreateResolves \/ CreateRejects \/ PreparationFails \/ EvaluationCompletes

SpecEvaluate == EInit /\ [][ENext]_vars

\* ------------------------------------------------------------------------
\* MarketDataService.executeWithFallback (unified service with providers)
\* ------------------------------------------------------------------------
MaxCalls == 2

\* this.providers, in order of preference
Providers == <<"CoinGecko", "CoinMarketCap", "Messari">>

ProviderNames == { Providers[i] : i \in 1..Len(Providers) }

\* getAvailableProviders without the filter
getAvailableProviders_All(status) == Providers

\* healthStatus.get(name) !== false
getAvailableProviders(status) == SelectSeq(Providers, LAMBDA p : status[p] # "unhealthy")

IdleCall == [state |-> "idle", available |-> <<>>, index |-> 0, failed |-> <<>>, source |-> ""]

MInit ==
  /\ healthStatus = [p \in ProviderNames |-> "unset"]
  /\ cacheValid = FALSE
  /\ calls = [c \in 1..MaxCalls |-> IdleCall]
  /\ failedSince = {}
  /\ PIdle
  /\ CIdle
  /\ RIdle
  /\ SIdle
  /\ AIdle
  /\ GIdle
  /\ EIdle
  /\ HIdle
  /\ LIdle

\* executeWithFallback up to its first await: cache lookup, snapshot of the
\* available providers, first provider called (or the throw when none is)
StartCall(c) ==
  /\ calls[c].state = "idle"
  /\ calls' = [calls EXCEPT ![c] =
       IF cacheValid
       THEN [IdleCall EXCEPT !.state = "returned", !.source = "cache"]
       ELSE LET available == getAvailableProviders(healthStatus)
            IN IF available = <<>>
               THEN [IdleCall EXCEPT !.state = "failed"]
               ELSE [IdleCall EXCEPT !.state = "running", !.available = available, !.index = 1]]
  /\ UNCHANGED <<healthStatus, cacheValid, failedSince>>
  /\ UNCHANGED <<pvars, cvars, rvars, svars, avars, gvars, evars, hvars, lvars>>

\* the awaited provider call resolves: setCache and return
ProviderSucceeds(c) ==
  /\ calls[c].state = "running"
  /\ calls' = [calls EXCEPT ![c].state = "returned",
                             ![c].source = calls[c].available[calls[c].index]]
  /\ cacheValid' = TRUE
  /\ UNCHANGED <<healthStatus, failedSince>>
  /\ UNCHANGED <<pvars, cvars, rvars, svars, avars, gvars, evars, hvars, lvars>>

\* the awaited provider call rejects: the provider is marked unhealthy and
\* the loop goes on to the next one of the snapshot, or throws after the last
ProviderFails(c) ==
  /\ calls[c].state = "running"
  /\ LET provider == calls[c].available[calls[c].index]
     IN /\ healthStatus' = [healthStatus EXCEPT ![provider] = "unhealthy"]
        /\ failedSince' = failedSince \cup {provider}
        /\ calls' = [calls EXCEPT
             ![c].failed = Append(@, provider),
             ![c].state = IF calls[c].index = Len(calls[c].available) THEN "failed" ELSE "running",
             ![c].index = IF calls[c].index = Len(calls[c].available) THEN @ ELSE @ + 1]
  /\ UNCHANGED cacheValid
  /\ UNCHANGED <<pvars, cvars, rvars, svars, avars, gvars, evars, hvars, lvars>>

\* one turn of the loop of checkProvidersHealth: isHealthy settles and the
\* status of the provider is set
HealthChecked(p) ==
  /\ \E healthy \in BOOLEAN :
       /\ healthStatus' = [healthStatus EXCEPT ![p] = IF healthy THEN "healthy" ELSE "unhealthy"]
       /\ failedSince' = IF healthy THEN failedSince \ {p} ELSE failedSince
  /\ UNCHANGED <<cacheValid, calls>>
  /\ UNCHANGED <<pvars, cvars, rvars, svars, avars, gvars, evars, hvars, lvars>>

\* the ttl of the cache entry passes
CacheExpires ==
  /\ cacheValid
  /\ cacheValid' = FALSE
  /\ UNCHANGED <<healthStatus, calls, failedSince>>
  /\ UNCHANGED <<pvars, cvars, rvars, svars, avars, gvars, evars, hvars, lvars>>

MNext ==
  \/ \E c \in 1..MaxCalls : StartCall(c)
  \/ \E c \in 1..MaxCalls : ProviderSucceeds(c)
  \/ \E c \in 1..MaxCalls : ProviderFails(c)
  \/ \E p \in ProviderNames : HealthChecked(p)
  \/ CacheExpires

SpecFallback == MInit /\ [][MNext]_vars

\* ------------------------------------------------------------------------
\* fetchWithRetry (HttpClient and the CoinGecko MarketDataService)
\* ------------------------------------------------------------------------
\* maxRetries of the provider configs (3) and the default of
\* HTTP_MAX_RETRIES (4), next to a single attempt
RetryLimits == {1, 3, 4}

\* how a failed attempt ends: a response that is not ok and not 429, or a
\* rejected fetch (network error, timeout)
FailureKinds == {"http", "network"}

HInit ==
  /\ hpc = "attempting"
  /\ maxRetries \in RetryLimits
  /\ attempts = <<>>
  /\ lastError = Undefined
  /\ thrown = Undefined
  /\ PIdle
  /\ CIdle
  /\ RIdle
  /\ SIdle
  /\ AIdle
  /\ GIdle
  /\ EIdle
  /\ MIdle
  /\ LIdle

\* the attempt is answered with an ok response: return
AttemptOk ==
  /\ hpc = "attempting"
  /\ attempts' = Append(attempts, "ok")
  /\ hpc' = "returned"
  /\ UNCHANGED <<maxRetries, lastError, thrown>>
  /\ UNCHANGED <<pvars, cvars, rvars, svars, avars, gvars, evars, mvars, lvars>>

\* the attempt is answered with 429: wait and continue; after the last
\* attempt the loop ends and lastError is thrown
AttemptRateLimited ==
  /\ hpc = "attempting"
  /\ attempts' = Append(attempts, "429")
  /\ IF Len(attempts) + 1 = maxRetries
     THEN /\ hpc' = "threw"
          /\ thrown' = lastError
     ELSE /\ hpc' = "attempting"
          /\ UNCHANGED thrown
  /\ UNCHANGED <<maxRetries, lastError>>
  /\ UNCHANGED <<pvars, cvars, rvars, svars, avars, gvars, evars, mvars, lvars>>

\* the attempt fails: the catch block keeps the error, breaks after the
\* last attempt and otherwise backs off and goes on
AttemptFails ==
  /\ hpc = "attempting"
  /\ \E kind \in FailureKinds :
       LET error == [attempt |-> Len(attempts) + 1, kind |-> kind]
       IN /\ attempts' = Append(attempts, kind)
          /\ lastError' = error
          /\ IF Len(attempts) + 1 = maxRetries
             THEN /\ hpc' = "threw"
                  /\ thrown' = error
             ELSE /\ hpc' = "attempting"
                  /\ UNCHANGED thrown
  /\ UNCHANGED maxRetries
  /\ UNCHANGED <<pvars, cvars, rvars, svars, avars, gvars, evars, mvars, lvars>>

HNext == AttemptOk \/ AttemptRateLimited \/ AttemptFails

SpecRetry == HInit /\ [][HNext]_vars

\* ------------------------------------------------------------------------
\* AIService: the rate limit of chat (GROQ_API_KEY configured)
\* ------------------------------------------------------------------------
MAX_REQUESTS_PER_MINUTE == 10

\* chat calls that can be in flight together
MaxCallers == 2

\* clock ticks in the minute of the rate-limit window
WindowTicks == 2

Callers == 1..MaxCallers

\* checkRateLimit's effect on rateLimitInfo: the counter is reset once a
\* minute has passed since lastReset
checkedInfo(info) ==
  IF info.sinceReset >= WindowTicks
  THEN [requestsThisMinute |-> 0, sinceReset |-> 0]
  ELSE info

\* checkRateLimit's result
checkRateLimit(info) ==
  checkedInfo(info).requestsThisMinute < MAX_REQUESTS_PER_MINUTE

LInit ==
  /\ rateLimitInfo = [requestsThisMinute |-> 0, sinceReset |-> 0]
  /\ chatpc = [c \in Callers |-> "idle"]
  /\ timer = [c \in Callers |-> 0]
  /\ sentInWindow = 0
  /\ PIdle
  /\ CIdle
  /\ RIdle
  /\ SIdle
  /\ AIdle
  /\ GIdle
  /\ EIdle
  /\ MIdle
  /\ HIdle

\* chat up to its await: waitForRateLimit runs checkRateLimit and either
\* returns or starts a timer for the rest of the window
ChatWaitsForRateLimit(c) ==
  /\ chatpc[c] = "idle"
  /\ rateLimitInfo' = checkedInfo(rateLimitInfo)
  /\ sentInWindow' =
       IF rateLimitInfo.sinceReset >= WindowTicks THEN 0 ELSE sentInWindow
  /\ IF checkRateLimit(rateLimitInfo)
     THEN /\ chatpc' = [chatpc EXCEPT ![c] = "admitted"]
          /\ UNCHANGED timer
     ELSE /\ chatpc' = [chatpc EXCEPT ![c] = "waiting"]
          /\ timer' = [timer EXCEPT ![c] = WindowTicks - rateLimitInfo'.sinceReset]
  /\ UNCHANGED <<pvars, cvars, rvars, svars, avars, gvars, evars, mvars, hvars>>

\* the timer of waitForRateLimit fires: the call goes on without a new check
TimerFires(c) ==
  /\ chatpc[c] = "waiting"
  /\ timer[c] = 0
  /\ chatpc' = [chatpc EXCEPT ![c] = "admitted"]
  /\ UNCHANGED <<rateLimitInfo, timer, sentInWindow>>
  /\ UNCHANGED <<pvars, cvars, rvars, svars, avars, gvars, evars, mvars, hvars>>

\* chat after its await: count the request and send it
ChatSends(c) ==
  /\ chatpc[c] = "admitted"
  /\ rateLimitInfo' =
       [rateLimitInfo EXCEPT !.requestsThisMinute = @ + 1]
  /\ sentInWindow' = sentInWindow + 1
  /\ chatpc' = [chatpc EXCEPT ![c] = "fetching"]
  /\ UNCHANGED timer
  /\ UNCHANGED <<pvars, cvars, rvars, svars, avars, gvars, evars, mvars, hvars>>

\* the request is answered or times out: chat returns or throws
ChatResponds(c) ==
  /\ chatpc[c] = "fetching"
  /\ chatpc' = [chatpc EXCEPT ![c] = "idle"]
  /\ UNCHANGED <<rateLimitInfo, timer, sentInWindow>>
  /\ UNCHANGED <<pvars, cvars, rvars, svars, avars, gvars, evars, mvars, hvars>>

\* time passes
Tick ==
  /\ rateLimitInfo.sinceReset < WindowTicks
  /\ rateLimitInfo' = [rateLimitInfo EXCEPT !.sinceReset = @ + 1]
  /\ timer' = [c \in Callers |-> IF timer[c] > 0 THEN timer[c] - 1 ELSE 0]
  /\ UNCHANGED <<chatpc, sentInWindow>>
  /\ UNCHANGED <<pvars, cvars, rvars, svars, avars, gvars, evars, mvars, hvars>>

LNext ==
  \/ \E c \in Callers : ChatWaitsForRateLimit(c)
  \/ \E c \in Callers : TimerFires(c)
  \/ \E c \in Callers : ChatSends(c)
  \/ \E c \in Callers : ChatResponds(c)
  \/ Tick

SpecRateLimit == LInit /\ [][LNext]_vars

\* ------------------------------------------------------------------------
\* Properties of the composed portfolio
\* ------------------------------------------------------------------------
WithinTolerance(total) == Le(MathAbs(Sub(total, One)), Tolerance)

Selected == pc \in {"selected", "combined"}

AllAtMost(items, cap) == \A i \in 1..Len(items) : Le(items[i].allocationPct, cap)

\* C1: the allocationPct values of every composed portfolio (core rows,
\* stable row and satellites) sum to 1.0 within 0.01, whatever satellite
\* list reached the composer.
C1_SumIsOne ==
  pc = "combined" => WithinTolerance(SumPct(allocation))

\* C2: in the returned allocation no item of any role has
\* allocationPct above policy.perAssetCapPct.
C2_NoItemAboveCap ==
  pc = "combined" => AllAtMost(allocation, policy.perAssetCapPct)

\* C3: in the returned allocation the items of each bucket sum to at most
\* policy.bucketCaps[bucket].
C3_BucketSumsWithinCaps ==
  pc = "combined" =>
    \A b \in Buckets : Le(bucketTotal(allocation, b), policy.bucketCaps[b])

\* C4: a missing or unparseable response, or one with an entry that fails
\* type/range validation, makes satellite selection return exactly the
\* output of the deterministic fallback.
C4_InvalidResponseFallsBackInFull ==
  (Selected /\ (advisoryThrows(advisory)
                 \/ \E i \in 1..Len(advisory.satellites) : ~ValidEntry(advisory.satellites[i])))
    => satellites = fallbackSatelliteSelection(candidates, policy)

\* C5: on a malformed or empty response the fallback returns a non-empty
\* list that respects the per-asset cap and the bucket caps, and the
\* portfolio sums to 1.0 within 1%.  Stated for the runs in which a
\* non-empty list is possible at all: the filter left candidates and the
\* holdings range leaves satellite slots.
C5_FallbackRespectsCaps ==
  (pc = "combined" /\ advisoryThrows(advisory)
     /\ Len(candidates) > 0 /\ hmax(policy) > 3)
    => /\ Len(satellites) > 0
       /\ AllAtMost(satellites, policy.perAssetCapPct)
       /\ \A b \in Buckets : Le(bucketTotal(satellites, b), policy.bucketCaps[b])
       /\ WithinTolerance(SumPct(allocation))

InUnit(x) == Ge(x, Zero) /\ Le(x, One)

\* C10: every percentage field of the resolved policy lies in [0,1], for
\* every preset and every stable-buffer override.
C10_PolicyPercentagesInUnit ==
  pc # "start" =>
    /\ InUnit(policy.coreTargetPct)
    /\ InUnit(policy.btcTargetPct)
    /\ InUnit(policy.ethTargetPct)
    /\ InUnit(policy.stableBufferPct)
    /\ InUnit(policy.satelliteTargetPct)

\* C9: composing a second time from the same policy and the same satellite
\* list returns the allocation the first composition returned.
C9_SecondCompositionSame ==
  Len(outputs) = 2 => outputs[2] = outputs[1]

RankedIds == { ranked[j].coinId : j \in 1..Len(ranked) }

Analysable(t) == t.fetch.ok /\ t.fetch.points >= MinHistory /\ t.analysis.state = "returned"

\* C6: once markets are listed rankCoins does not throw, whatever the order
\* in which the history calls settle; a candidate whose history fetch or
\* analysis failed is the only one missing, and every candidate with at
\* least 30 price points whose analysis succeeded is in the ranked output.
C6_OnlyFailedCandidatesDropped ==
  /\ rpc = "threw" => markets = <<>> /\ tasks = <<>>
  /\ rpc = "done" =>
       /\ RankedIds = { markets[i] : i \in { k \in 1..Len(tasks) : Analysable(tasks[k]) } }
       /\ Len(ranked) = Cardinality(RankedIds)
       /\ \A j \in 1..(Len(ranked) - 1) : ranked[j].totalScore >= ranked[j + 1].totalScore

\* a batch in which one candidate's fetch was rejected, one candidate's
\* analysis threw, and a candidate with exactly 30 points was ranked
C6_Witness ==
  /\ rpc = "done"
  /\ \E i \in 1..Len(tasks) : Settled(tasks[i]) /\ ~tasks[i].fetch.ok
  /\ \E i \in 1..Len(tasks) : tasks[i].analysis.state = "threw"
  /\ \E i \in 1..Len(tasks) : tasks[i].fetch.points = MinHistory /\ markets[i] \in RankedIds

\* C7: calculateScore never raises to its caller; when fetching the coin or
\* a computation inside fails it returns category "quarantine" with
\* confidence 0 and the generic explanation.
C7_NeverRaises ==
  /\ sresult.outcome # "threw"
  /\ spc = "returned" => sresult.outcome = "returned"
  /\ (spc = "returned" /\ raised) =>
       /\ sresult.category = "quarantine"
       /\ sresult.confidence = 0
       /\ sresult.explanation = "generic"

\* calculateScore settled after an error inside its try block
C7_Witness ==
  /\ spc = "returned"
  /\ raised
  /\ sresult.outcome = "returned"

InScoreRange(v) == v >= 0 /\ v <= 100

\* C8: each of the five component scores lies in [0,100], and so does
\* totalScore, their sum weighted .30/.25/.15/.15/.15, for every input.
C8_ScoresInRange ==
  /\ InScoreRange(scores.technicalScore)
  /\ InScoreRange(scores.momentumScore)
  /\ InScoreRange(scores.volumeScore)
  /\ InScoreRange(scores.volatilityScore)
  /\ InScoreRange(scores.fundamentalScore)
  /\ Ge(scores.totalScore, Zero) /\ Le(scores.totalScore, R(100, 1))
  /\ apc = "done" =>
       scores.totalScore =
         Add(Add(Add(Add(Mul(R(scores.technicalScore, 1), R(30, 100)),
                         Mul(R(scores.momentumScore, 1), R(25, 100))),
                     Mul(R(scores.volumeScore, 1), R(15, 100))),
                 Mul(R(scores.volatilityScore, 1), R(15, 100))),
             Mul(R(scores.fundamentalScore, 1), R(15, 100)))

\* an analysis whose technical score was held at 100 and whose volatility
\* score was held at 0
C8_Witness ==
  /\ apc = "done"
  /\ scores.technicalScore = 100
  /\ scores.volatilityScore = 0
  /\ Gt(scores.totalScore, Zero)

\* C11: the resolved policy has stableBufferPct = max(override, preset
\* default), coreTargetPct = max(0.30, presetCore - stableBufferPct),
\* satelliteTargetPct = 1 - core - stable, BTC and ETH targets scaled by
\* core / presetCore; so core + stable + satellite = 1 and
\* btcTargetPct + ethTargetPct = coreTargetPct.
C11_PolicyResolution ==
  pc # "start" =>
    LET preset == riskProfiles[intake.riskTolerance]
        override == R(intake.stablecoinBufferPct, 100)
        stable == IF Ge(override, preset.stableBufferPct) THEN override ELSE preset.stableBufferPct
        lowered == Sub(preset.coreTargetPct, stable)
        coreT == IF Ge(lowered, R(30, 100)) THEN lowered ELSE R(30, 100)
        ratio == Div(coreT, preset.coreTargetPct)
    IN /\ policy.stableBufferPct = stable
       /\ policy.coreTargetPct = coreT
       /\ policy.satelliteTargetPct = Sub(Sub(One, coreT), stable)
       /\ policy.btcTargetPct = Mul(preset.btcTargetPct, ratio)
       /\ policy.ethTargetPct = Mul(preset.ethTargetPct, ratio)
       /\ Add(Add(policy.coreTargetPct, policy.stableBufferPct), policy.satelliteTargetPct) = One
       /\ Add(policy.btcTargetPct, policy.ethTargetPct) = policy.coreTargetPct

\* a policy resolved from an override above the preset default, with the
\* core target held at its floor
C11_Witness ==
  /\ pc # "start"
  /\ Gt(policy.stableBufferPct, riskProfiles[intake.riskTolerance].stableBufferPct)
  /\ policy.coreTargetPct = CoreFloor
  /\ Lt(policy.btcTargetPct, riskProfiles[intake.riskTolerance].btcTargetPct)

\* C12: with the Conservative policy and an empty satellite list the
\* composed allocation is exactly BTC (core), ETH (core), USDC (stable), in
\* that order, and sums to 1.0 within 1%.
C12_ConservativeCoreOnly ==
  (pc = "combined" /\ policy.riskTolerance = "Conservative" /\ satellites = <<>>) =>
    /\ Len(allocation) = 3
    /\ [i \in 1..3 |-> allocation[i].coinId] = <<"bitcoin", "ethereum", "usd-coin">>
    /\ [i \in 1..3 |-> allocation[i].role] = <<"core", "core", "stable">>
    /\ WithinTolerance(SumPct(allocation))

\* a Conservative run composed from an empty satellite list and rescaled
C12_Witness ==
  /\ pc = "combined"
  /\ policy.riskTolerance = "Conservative"
  /\ satellites = <<>>
  /\ allocation # core
  /\ Len(allocation) = 3

\* C13: for a strictly increasing 40-point price series with constant
\* volume the RSI is 100, the price is above SMA20 and above SMA50 (both
\* bonuses of the technical score apply) and the trend is "bullish".
C13_RisingSeriesIsBullish ==
  (gpc = "done" /\ Len(prices) = 40 /\ StrictlyIncreasing(prices) /\ ConstantSeries(volumes)) =>
    /\ technical.rsi = R(100, 1)
    /\ Gt(lastOf(prices), technical.sma20)
    /\ Gt(lastOf(prices), technical.sma50)
    /\ signal.trend = "bullish"

\* C20: calculateRSI with period 14 is exactly 50 on fewer than 15 points;
\* on 31 or more positive prices it lies in [0,100], and is 100 when the
\* last 14 changes contain no loss.
C20_RsiRange ==
  gpc # "indicators" =>
    /\ Len(prices) < 15 => technical.rsi = R(50, 1)
    /\ Len(prices) >= 31 =>
         /\ Ge(technical.rsi, Zero) /\ Le(technical.rsi, R(100, 1))
         /\ (\A j \in (Len(prices) - 13)..Len(prices) : Ge(prices[j], prices[j - 1]))
              => technical.rsi = R(100, 1)

\* a series of at least 31 points with gains and losses among its last 14
\* changes, whose RSI is strictly between 0 and 100
C20_Witness ==
  /\ gpc = "done"
  /\ Len(prices) >= 31
  /\ Gt(technical.rsi, Zero)
  /\ Lt(technical.rsi, R(100, 1))

\* the rank ceilings of the presets
RankCeiling == [Conservative |-> 100, Balanced |-> 200, Aggressive |-> 300]

\* the ids that are already held as core or stable
HeldIds == {"bitcoin", "ethereum", "usd-coin", "tether", "dai", "true-usd", "binance-usd"}

\* coin, at 1-based position rank of the ranking, is dropped by one of the
\* six rules
Dropped(coin, rank) ==
  \/ coin.marketCap < intake.liquidity.minMarketCapUsd
  \/ coin.volume24h * 1000 < intake.liquidity.minVolToMcap * coin.marketCap
  \/ rank > RankCeiling[intake.riskTolerance]
  \/ coin.coinId \in intake.exclusions
  \/ coin.coinId \in HeldIds
  \/ policy.bucketCaps[IF coin.volatility30d < 30 THEN "Low"
                       ELSE IF coin.volatility30d < 70 THEN "Medium" ELSE "High"] = Zero

\* C14: filterCandidates keeps a candidate if and only if none of the six
\* rules drops it, and the kept candidates are in their ranked order.
C14_FilterKeepsExactly ==
  pc = "filtered" =>
    LET kept == { i \in 1..Len(rankedCoins) : ~Dropped(rankedCoins[i], i) }
    IN /\ Len(candidates) = Cardinality(kept)
       /\ \A i \in kept : \E k \in 1..Len(candidates) : candidates[k] = rankedCoins[i]
       /\ \A k \in 1..Len(candidates) : \E i \in kept : candidates[k] = rankedCoins[i]
       /\ \A k, l \in 1..Len(candidates) :
            k < l => \E i, j \in kept : i < j /\ candidates[k] = rankedCoins[i]
                                       /\ candidates[l] = rankedCoins[j]

\* a ranking of more than 100 coins filtered under the Conservative preset
\* with an exclusion: the coin at rank 100 is kept, the one at 101 is not
C14_Witness ==
  /\ pc = "filtered"
  /\ Len(rankedCoins) > 100
  /\ intake.riskTolerance = "Conservative"
  /\ intake.exclusions # {}
  /\ Len(candidates) = 1
  /\ candidates[1].coinId = "solana"

CandidateIds == { candidates[k].coinId : k \in 1..Len(candidates) }

\* C15: every satellite of a composed portfolio is one of the filtered
\* candidates of that run, on the advisory path and on the fallback path.
C15_SatellitesAreCandidates ==
  pc = "combined" =>
    \A i \in 1..Len(allocation) :
      allocation[i].role = "satellite" => allocation[i].coinId \in CandidateIds

\* amount is allocationPct * budget rounded to the nearest multiple of 5 and
\* raised to 5 if lower
RoundedToFive(amount, allocationPct, budget) ==
  LET x == Mul(allocationPct, R(budget, 1))
  IN /\ IsFinite(amount)
     /\ amount[2] = 1
     /\ amount[1] % 5 = 0
     /\ amount[1] >= 5
     /\ IF Lt(x, R(15, 2)) THEN amount = R(5, 1)
        ELSE Le(MathAbs(Sub(amount, x)), R(5, 2))

\* C16: for every item of the final allocation the contribution amount is
\* allocationPct * monthlyBudget rounded to the nearest multiple of $5 and
\* raised to $5 if lower (so a multiple of 5, at least 5), and the cadence
\* is "Monthly".
C16_DcaAmounts ==
  pc = "combined" =>
    /\ Len(dca) = Len(allocation)
    /\ \A i \in 1..Len(allocation) :
         /\ RoundedToFive(dca[i].amountUsd, allocation[i].allocationPct, monthlyContributionUsd)
         /\ dca[i].cadence = "Monthly"

\* C17: in one run the advisory call is issued at most once and never
\* retried; when it times out, errors or answers with something that is not
\* JSON, selection returns the fallback's list, and the run goes on to a
\* composed portfolio instead of waiting on the call.
C17_AdvisoryOnceThenFallback ==
  /\ [](chatCalls <= 1)
  /\ []((Selected /\ advisory.kind \in {"chatError", "notJson", "jsonNull"})
          => satellites = fallbackSatelliteSelection(candidates, policy))
  /\ (pc = "advisory") ~> (pc = "combined")

\* a run whose single advisory call failed and that was completed from a
\* non-empty fallback list
C17_Witness ==
  /\ pc = "combined"
  /\ chatCalls = 1
  /\ advisory.kind = "chatError"
  /\ Len(satellites) > 0
  /\ satellites = fallbackSatelliteSelection(candidates, policy)

\* the category the documented rule gives to a returned result
CategoryByRule(riskScore, rewardScore, marketCap) ==
  IF riskScore >= 80 \/ (riskScore >= 60 /\ rewardScore <= 20) THEN "quarantine"
  ELSE IF riskScore <= 30 /\ marketCap >= MARKET_CAP_TIERS.LARGE_CAP THEN "core"
  ELSE IF rewardScore >= 70 /\ riskScore >= 50 THEN "high-risk"
  ELSE "medium"

\* C18: the category of a non-error result is the first match, on the
\* returned riskScore, rewardScore and the market cap, of: quarantine (risk
\* >= 80, or risk >= 60 and reward <= 20), core (risk <= 30 and market cap
\* >= $10B), high-risk (reward >= 70 and risk >= 50), medium.
C18_CategoryFollowsReturnedScores ==
  (spc = "returned" /\ ~raised) =>
    sresult.category = CategoryByRule(sresult.riskScore, sresult.rewardScore, sdata.market_cap)

\* C19: the confidence of a non-error result is 100 less 20, 15, 10, 10 for
\* a missing market cap, volume, description, rank, and less 15 when, and
\* only when, the volatility factor is the neutral default and was not
\* computed from price history.
C19_ConfidencePenalties ==
  (spc = "returned" /\ ~raised) =>
    sresult.confidence =
      100 - (IF sdata.market_cap = 0 THEN 20 ELSE 0)
          - (IF sdata.total_volume = 0 THEN 15 ELSE 0)
          - (IF ~sdata.hasDescription THEN 10 ELSE 0)
          - (IF sdata.market_cap_rank = 0 THEN 10 ELSE 0)
          - (IF volatilityFrom = "default" THEN 15 ELSE 0)

\* C21: after the per-asset step every satellite's allocationPct is the
\* smaller of the proposed allocationPct and policy.perAssetCapPct: above
\* the cap it is the cap, at or below the cap it is as proposed.
C21_ClampedToPerAssetCap ==
  pc = "clamped" =>
    /\ Len(satellites) = Len(parseSatellites(advisory))
    /\ \A i \in 1..Len(satellites) :
         LET proposed == parseSatellites(advisory)[i]
         IN /\ satellites[i] = [proposed EXCEPT !.allocationPct =
                                  MathMin(proposed.allocationPct, policy.perAssetCapPct)]
            /\ Gt(proposed.allocationPct, policy.perAssetCapPct)
                 => satellites[i].allocationPct = policy.perAssetCapPct
            /\ Le(proposed.allocationPct, policy.perAssetCapPct)
                 => satellites[i].allocationPct = proposed.allocationPct

\* a proposal of 0.9 under the cap 0.15 was clamped to 0.15, next to one
\* left as proposed
C21_Witness ==
  /\ pc = "clamped"
  /\ policy.perAssetCapPct = R(15, 100)
  /\ \E i, j \in 1..Len(satellites) :
       /\ parseSatellites(advisory)[i].allocationPct = R(90, 100)
       /\ satellites[i].allocationPct = R(15, 100)
       /\ satellites[j].allocationPct = R(10, 100)

\* the array as the per-asset step left it
ClampedProposal == capPerAsset(parseSatellites(advisory), policy)

\* C22: in the bucket step, every satellite of a bucket whose total exceeds
\* policy.bucketCaps[bucket] is multiplied by the same factor cap/total, so
\* that the bucket's total equals the cap and proportions are kept;
\* satellites of the other buckets are left unchanged.
C22_BucketsScaledToCap ==
  pc = "bucketCapped" =>
    /\ Len(satellites) = Len(ClampedProposal)
    /\ \A i \in 1..Len(satellites) :
         LET before == ClampedProposal[i]
             b == before.bucket
         IN IF b \in Buckets /\ Gt(bucketTotal(ClampedProposal, b), policy.bucketCaps[b])
            THEN /\ satellites[i] =
                      [before EXCEPT !.allocationPct =
                         Mul(@, Div(policy.bucketCaps[b], bucketTotal(ClampedProposal, b)))]
                 /\ bucketTotal(satellites, b) = policy.bucketCaps[b]
                 /\ \A j \in 1..Len(satellites) :
                      ClampedProposal[j].bucket = b =>
                        Mul(satellites[i].allocationPct, ClampedProposal[j].allocationPct)
                          = Mul(satellites[j].allocationPct, before.allocationPct)
            ELSE satellites[i] = before

\* two satellites of one bucket were scaled down by a common factor, from a
\* total above the cap to the cap
C22_Witness ==
  /\ pc = "bucketCapped"
  /\ \E i, j \in 1..Len(satellites) :
       /\ i # j
       /\ satellites[i].bucket = satellites[j].bucket
       /\ satellites[i].bucket \in Buckets
       /\ Gt(bucketTotal(ClampedProposal, satellites[i].bucket), policy.bucketCaps[satellites[i].bucket])
       /\ Gt(satellites[i].allocationPct, Zero)
       /\ Lt(satellites[i].allocationPct, ClampedProposal[i].allocationPct)
       /\ ClampedProposal[i].allocationPct # ClampedProposal[j].allocationPct
       /\ bucketTotal(satellites, satellites[i].bucket) = policy.bucketCaps[satellites[i].bucket]

\* C23: the list validateAndCapSatellites returns is ordered by
\* non-increasing allocationPct and has at most holdingsTargetRange.max - 3
\* items (none when that is not positive), for every holdingsTargetRange the
\* caller supplies.
C23_SortedAndLimited ==
  pc = "validated" =>
    /\ \A i \in 1..Len(satellites) - 1 :
         Ge(satellites[i].allocationPct, satellites[i + 1].allocationPct)
    /\ Len(satellites) <= (IF hmax(policy) > 3 THEN hmax(policy) - 3 ELSE 0)

\* the same for the ranges whose max leaves room for the three core rows
C23_SortedAndLimitedFromThree ==
  (pc = "validated" /\ hmax(policy) >= 3) =>
    /\ \A i \in 1..Len(satellites) - 1 :
         Ge(satellites[i].allocationPct, satellites[i + 1].allocationPct)
    /\ Len(satellites) <= hmax(policy) - 3
    /\ satellites = SubSeq(sortDesc(capBuckets(ClampedProposal, policy)), 1, Len(satellites))

\* C26: whenever holdingsTargetRange.max is at least 3, the composed
\* allocation has at most holdingsTargetRange.max items, on the advisory
\* path and on the fallback path.
C26_HoldingsWithinMax ==
  (pc = "combined" /\ hmax(policy) >= 3) =>
    /\ Len(core) <= 3
    /\ Len(satellites) <= hmax(policy) - 3
    /\ Len(allocation) <= hmax(policy)

\* an advisory list longer than the room left was cut, and the portfolio
\* has exactly max items
C26_Witness ==
  /\ pc = "combined"
  /\ advisory.kind = "list"
  /\ hmax(policy) = 4
  /\ Len(advisory.satellites) = 2
  /\ Len(allocation) = 4

\* C24: when the total still deviates from 1.0 by more than the tolerance
\* after the rescaling step, composition fails: no step returns such a
\* portfolio.
C24_DeviatingTotalFails ==
  [][ (pc = "selected" /\ pc' = "combined")
        => WithinTolerance(SumPct(allocation')) ]_vars

\* C25: on the advisory path of evaluateWithAI the allocations of the
\* returned picks sum to exactly 100 whenever at least one pick has a
\* positive allocation.
C25_PicksSumToHundred ==
  (epc = "done" /\ eresponse.kind = "picks"
     /\ \E i \in 1..Len(picks) : Gt(picks[i], Zero))
    => SumSeq(picks) = R(100, 1)

\* C27: once runEvaluation has finished, no row it created is still
\* "processing": the row is "completed" with picks and summary, or "failed"
\* with an error message.
C27_NoRecordLeftProcessing ==
  epc \in {"done", "threw"} =>
    \A i \in 1..Len(records) :
      /\ records[i].status # "processing"
      /\ records[i].status = "completed" => records[i].summary # "null"
      /\ records[i].status = "failed" => records[i].error # "null"

\* s is Providers with some elements left out, in the same order
InPreferenceOrder(s) ==
  \E keep \in SUBSET ProviderNames : s = SelectSeq(Providers, LAMBDA p : p \in keep)

C29_ThrowsLastError ==
  /\ Len(attempts) <= maxRetries
  /\ hpc = "attempting" => Len(attempts) < maxRetries
  /\ hpc = "returned" => attempts[Len(attempts)] = "ok"
  /\ hpc = "threw" =>
       /\ Len(attempts) = maxRetries
       /\ thrown = [attempt |-> Len(attempts), kind |-> attempts[Len(attempts)]]

\* C30: between two consecutive resets of the rate-limit window the AI
\* service sends at most MAX_REQUESTS_PER_MINUTE chat requests, however
\* many chat calls are in flight together.
C30_AtMostMaxPerWindow == sentInWindow <= MAX_REQUESTS_PER_MINUTE

====
